---- MODULE Spec2Model ----
(***************************************************************************)
(* A model of the codec layer of go-virtualbox: the command argument       *)
(* builder (CmdArgs), the UART codec (NewUARTs), the storage controller    *)
(* codec (NewStorageControllersFromProps) and the DHCP / NAT network       *)
(* listing parsers (DHCPs, NATNets).                                       *)
(*                                                                         *)
(* Go strings that the code only compares or stores are TLA+ strings.      *)
(* Go strings that the code splits, slices, parses, formats or             *)
(* concatenates are sequences of one-character strings, so that            *)
(* "0x03f8,4" is <<"0","x","0","3","f","8",",","4">>.                      *)
(* A Go map is a TLA+ function whose DOMAIN is the set of present keys.    *)
(***************************************************************************)
EXTENDS Integers, Sequences, FiniteSets, TLC

VARIABLES
    args,        \* CmdArgs.args: the base sequence
    overrides,   \* CmdArgs.overrides: the override sequence
    firstCall,   \* history: which sequence received the first call
    vmPropMap,   \* the VM info map handed to NewUARTs
    encoded,     \* history: the UART whose properties were written, or <<>>
    uartsRes,    \* what NewUARTs returned: [status, uarts]
    storagePropMap,  \* the VM info map handed to NewStorageControllersFromProps
    ctrlsRes,    \* what NewStorageControllersFromProps returned: [status, ctrls]
    dhcpListing, \* the records and blank lines "list dhcpservers" shows
    dhcpOut,     \* the output of the tool that DHCPs read, <<>> before the call
    dhcpRes,     \* what DHCPs returned: [status, m]
    natListing,  \* the records and blank lines "list natnets" shows
    natOut,      \* the output of the tool that NATNets read
    natRes,      \* what NATNets returned: [status, m]
    newUartRes,  \* the strings handed to NewUART and what it returned: [in, res]
    uartMap,     \* the map of UARTs handed to NewUARTsFromUARTMap
    uartsColl,   \* the collection NewUARTsFromUARTMap returned: [status, uarts, trimmed]
    cmdRes,      \* what ModifyVMCommandParameters returned: [status, cmdParams]
    vmInfoLines, \* the lines of VM info handed to vminfoAsPropMap
    vmInfoRes,   \* what vminfoAsPropMap returned: [called, m]
    vmConfig,    \* the configuration of the machine that showvminfo shows
    getRes,      \* what GetMachine returned: [status, err, m]
    machine,     \* the Machine that is the receiver of Refresh
    refreshRes,  \* what Refresh returned and its receiver before: [status, before]
    mutex,  \* the package variable mutex: 0 when unlocked, else the caller that holds it
    caller, \* the goroutines that call GetMachine: [pc, op, id, tool, res] of each
    waiter,  \* the goroutine of WaitGuestProperties: [pc, prop, returned, failed, wgDone]
    props,  \* the channel props: [closed, received]
    done,  \* the channel done is closed
    wg, \* the counter of the WaitGroup wg
    vmOp  \* the call of Restart or Stop in progress: [op, pc, State, initial, issued, res]

cmdArgsVars == <<args, overrides, firstCall>>

uartVars == <<vmPropMap, encoded, uartsRes>>

storageVars == <<storagePropMap, ctrlsRes>>

dhcpVars == <<dhcpListing, dhcpOut, dhcpRes>>

natVars == <<natListing, natOut, natRes>>

newUartVars == <<newUartRes>>

uartCmdVars == <<uartMap, uartsColl, cmdRes>>

vmInfoVars == <<vmInfoLines, vmInfoRes>>

machineVars == <<vmConfig, getRes, machine, refreshRes>>

callsVars == <<mutex, caller>>

waitVars == <<waiter, props, done, wg>>

opVars == <<vmOp>>

vars ==
    <<args, overrides, firstCall, vmPropMap, encoded, uartsRes,
      storagePropMap, ctrlsRes, dhcpListing, dhcpOut, dhcpRes,
      natListing, natOut, natRes, newUartRes, uartMap, uartsColl, cmdRes,
      vmInfoLines, vmInfoRes, vmConfig, getRes, machine, refreshRes,
      mutex, caller,
      waiter, props, done, wg,
      vmOp>>

otherThanCmdArgs == <<uartVars, storageVars, dhcpVars, natVars,
    newUartVars, uartCmdVars, vmInfoVars, machineVars,
      callsVars,
      waitVars,
      opVars>>

otherThanUART == <<cmdArgsVars, storageVars, dhcpVars, natVars,
    newUartVars, uartCmdVars, vmInfoVars, machineVars,
      callsVars,
      waitVars,
      opVars>>

otherThanStorage == <<cmdArgsVars, uartVars, dhcpVars, natVars,
    newUartVars, uartCmdVars, vmInfoVars, machineVars,
      callsVars,
      waitVars,
      opVars>>

otherThanDHCP == <<cmdArgsVars, uartVars, storageVars, natVars,
    newUartVars, uartCmdVars, vmInfoVars, machineVars,
      callsVars,
      waitVars,
      opVars>>

otherThanNATNets == <<cmdArgsVars, uartVars, storageVars, dhcpVars,
    newUartVars, uartCmdVars, vmInfoVars, machineVars,
      callsVars,
      waitVars,
      opVars>>

otherThanNewUART ==
    <<cmdArgsVars, uartVars, storageVars, dhcpVars, natVars, uartCmdVars,
      vmInfoVars, machineVars,
      callsVars,
      waitVars,
      opVars>>

otherThanUARTCmd ==
    <<cmdArgsVars, uartVars, storageVars, dhcpVars, natVars, newUartVars,
      vmInfoVars, machineVars,
      callsVars,
      waitVars,
      opVars>>

otherThanVMInfo ==
    <<cmdArgsVars, uartVars, storageVars, dhcpVars, natVars, newUartVars,
      uartCmdVars, machineVars,
      callsVars,
      waitVars,
      opVars>>

otherThanMachine ==
    <<cmdArgsVars, uartVars, storageVars, dhcpVars, natVars, newUartVars,
      uartCmdVars, vmInfoVars,
      callsVars,
      waitVars,
      opVars>>

otherThanCalls ==
    <<cmdArgsVars, uartVars, storageVars, dhcpVars, natVars, newUartVars,
      uartCmdVars, vmInfoVars, machineVars,
      waitVars,
      opVars>>

otherThanWait ==
    <<cmdArgsVars, uartVars, storageVars, dhcpVars, natVars, newUartVars,
      uartCmdVars, vmInfoVars, machineVars, callsVars,
      opVars>>

\* what the steps of a GetMachine call, which write the result for the
\* caller of GetMachine, leave alone besides the variables they name
otherThanGetMachine ==
    <<cmdArgsVars, uartVars, storageVars, dhcpVars, natVars, newUartVars,
      uartCmdVars, vmInfoVars, waitVars>>

otherThanOp ==
    <<cmdArgsVars, uartVars, storageVars, dhcpVars, natVars, newUartVars,
      uartCmdVars, vmInfoVars, machineVars, callsVars, waitVars>>

(***************************************************************************)
(* Bounds of the model.                                                    *)
(***************************************************************************)
\* the largest number of CmdArg entries held by the two sequences together
MaxArgs == 3

\* the largest number of raw properties written into the VM info map
MaxRawProps == 2

\* the largest number of storage controllers described by a VM info map
MaxControllers == 2

\* the largest number of medium slots described by a VM info map
MaxMedia == 2

\* the largest number of records and blank lines of a listing
MaxListingItems == 3

\* the largest number of entries of the map handed to NewUARTsFromUARTMap
MaxUARTMapEntries == 2

\* the largest number of lines of a VM info handed to vminfoAsPropMap
MaxVMInfoLines == 3

\* the largest number of NIC indices the machine has a nic<i> line for
MaxNICs == 5

\* the number of goroutines that call GetMachine
MaxCallers == 2

\* the largest number of property changes the guestproperty waits return
MaxEvents == 3

\* the largest number of acpipowerbutton commands of one Stop
MaxPresses == 2

(***************************************************************************)
(* CmdArg / CmdArgs (src/natnet.go, second file of the listing).           *)
(* V is a *string: <<>> is nil, <<v>> points to v.  ToCmdArgParts is a     *)
(* function value: "nil", or "fn" for a caller supplied function, whose    *)
(* representative here yields three tokens.                                *)
(***************************************************************************)
CmdArgKeys == {"--a", "--b"}

CmdArgValues == {"1", "2"}

NewCmdArgNoValue(k) == [K |-> k, V |-> <<>>, ToCmdArgParts |-> "nil", Del |-> FALSE]

NewCmdArg(k, v) == [K |-> k, V |-> <<v>>, ToCmdArgParts |-> "nil", Del |-> FALSE]

NewCmdArgDeleted(k) == [K |-> k, V |-> <<>>, ToCmdArgParts |-> "nil", Del |-> TRUE]

\* a CmdArg built as a struct literal with a multi-token transform attached
NewCmdArgWithParts(k, v) == [K |-> k, V |-> <<v>>, ToCmdArgParts |-> "fn", Del |-> FALSE]

\* the representative caller supplied ToCmdArgParts function
ApplyToCmdArgParts(k, v) == <<k, "part", v>>

\* the CmdArg values the callers of the model pass in
CmdArgInputs ==
    {NewCmdArgNoValue(k) : k \in CmdArgKeys}
        \cup {NewCmdArg(k, v) : k \in CmdArgKeys, v \in CmdArgValues}
        \cup {NewCmdArgDeleted(k) : k \in CmdArgKeys}
        \cup {NewCmdArgWithParts(k, "1") : k \in CmdArgKeys}

\* the variadic argument lists of AppendCmdArgs and AppendOverride
CmdArgLists ==
    {<<>>} \cup {<<a>> : a \in CmdArgInputs}
        \cup {<<a, b>> : a \in CmdArgInputs, b \in CmdArgInputs}

NoteFirstCall(which) == IF firstCall = "none" THEN which ELSE firstCall

Room(n) == Len(args) + Len(overrides) + n <= MaxArgs

AppendNoValue(key) ==
    /\ UNCHANGED otherThanCmdArgs
    /\ Room(1)
    /\ args' = Append(args, NewCmdArgNoValue(key))
    /\ firstCall' = NoteFirstCall("base")
    /\ UNCHANGED overrides

AppendKV(key, value) ==
    /\ UNCHANGED otherThanCmdArgs
    /\ Room(1)
    /\ args' = Append(args, NewCmdArg(key, value))
    /\ firstCall' = NoteFirstCall("base")
    /\ UNCHANGED overrides

AppendCmdArgs(arg) ==
    /\ UNCHANGED otherThanCmdArgs
    /\ Room(Len(arg))
    /\ IF Len(arg) = 0
          THEN UNCHANGED <<args, firstCall>>
          ELSE /\ args' = args \o arg
               /\ firstCall' = NoteFirstCall("base")
    /\ UNCHANGED overrides

AppendOverride(arg) ==
    /\ UNCHANGED otherThanCmdArgs
    /\ Room(Len(arg))
    /\ IF Len(arg) = 0
          THEN UNCHANGED <<overrides, firstCall>>
          ELSE /\ overrides' = overrides \o arg
               /\ firstCall' = NoteFirstCall("override")
    /\ UNCHANGED args

\* a scan in which the first stored CmdArg of a key is kept
RECURSIVE ArgsScanKeepFirst(_, _, _, _)
ArgsScanKeepFirst(all, i, m, orderK) ==
    IF i > Len(all) THEN [m |-> m, orderK |-> orderK]
    ELSE LET arg == all[i]
             contains == arg.K \in DOMAIN m
             orderK2 == IF ~contains THEN Append(orderK, arg.K) ELSE orderK
             m2 == [k \in DOMAIN m \cup {arg.K} |-> IF k \in DOMAIN m THEN m[k] ELSE arg]
         IN ArgsScanKeepFirst(all, i + 1, m2, orderK2)

\* a scan in which a later CmdArg of a key replaces the value and the
\* deletion marker of the stored one, not its transform
RECURSIVE ArgsScanKeepTransform(_, _, _, _)
ArgsScanKeepTransform(all, i, m, orderK) ==
    IF i > Len(all) THEN [m |-> m, orderK |-> orderK]
    ELSE LET arg == all[i]
             contains == arg.K \in DOMAIN m
             orderK2 == IF ~contains THEN Append(orderK, arg.K) ELSE orderK
             stored == IF contains
                          THEN [arg EXCEPT !.ToCmdArgParts = m[arg.K].ToCmdArgParts]
                          ELSE arg
             m2 == [k \in DOMAIN m \cup {arg.K} |-> IF k = arg.K THEN stored ELSE m[k]]
         IN ArgsScanKeepTransform(all, i + 1, m2, orderK2)

\* the first loop of Args: m and orderK after scanning all[i..]
RECURSIVE ArgsScan(_, _, _, _)
ArgsScan(all, i, m, orderK) ==
    IF i > Len(all) THEN [m |-> m, orderK |-> orderK]
    ELSE LET arg == all[i]
             contains == arg.K \in DOMAIN m
             orderK2 == IF ~contains THEN Append(orderK, arg.K) ELSE orderK
             m2 == [k \in DOMAIN m \cup {arg.K} |-> IF k = arg.K THEN arg ELSE m[k]]
         IN ArgsScan(all, i + 1, m2, orderK2)

\* an emission that does not look at the deletion marker
ArgTokensIgnoreDel(arg) ==
    IF arg.V = <<>> THEN <<arg.K>>
    ELSE IF arg.ToCmdArgParts = "nil" THEN <<arg.K, arg.V[1]>>
    ELSE ApplyToCmdArgParts(arg.K, arg.V[1])

\* the tokens one CmdArg of the second loop of Args contributes
ArgTokens(arg) ==
    IF arg.Del THEN <<>>
    ELSE IF arg.V = <<>> THEN <<arg.K>>
    ELSE IF arg.ToCmdArgParts = "nil" THEN <<arg.K, arg.V[1]>>
    ELSE ApplyToCmdArgParts(arg.K, arg.V[1])

\* the second loop of Args
RECURSIVE ArgsEmit(_, _, _)
ArgsEmit(m, orderK, i) ==
    IF i > Len(orderK) THEN <<>>
    ELSE ArgTokens(m[orderK[i]]) \o ArgsEmit(m, orderK, i + 1)

\* an Args that scans the override sequence before the base sequence
ArgsOverridesFirst(a, o) ==
    LET scanned == ArgsScan(o \o a, 1, <<>>, <<>>)
    IN ArgsEmit(scanned.m, scanned.orderK, 1)

Args(a, o) ==
    LET scanned == ArgsScan(a \o o, 1, <<>>, <<>>)
    IN ArgsEmit(scanned.m, scanned.orderK, 1)

(***************************************************************************)
(* Strings as sequences of characters, and the library functions the       *)
(* codecs call on them.                                                    *)
(***************************************************************************)
Digits == <<"0", "1", "2", "3", "4", "5", "6", "7", "8", "9">>

LowerLetters ==
    <<"a", "b", "c", "d", "e", "f", "g", "h", "i", "j", "k", "l", "m",
      "n", "o", "p", "q", "r", "s", "t", "u", "v", "w", "x", "y", "z">>

UpperLetters ==
    <<"A", "B", "C", "D", "E", "F", "G", "H", "I", "J", "K", "L", "M",
      "N", "O", "P", "Q", "R", "S", "T", "U", "V", "W", "X", "Y", "Z">>

SetMax(S) == CHOOSE x \in S : \A y \in S : y <= x

SetMin(S) == CHOOSE x \in S : \A y \in S : x <= y

\* the position of character c in the sequence s, 0 when it is not there
IndexOf(c, s) ==
    IF \E i \in 1..Len(s) : s[i] = c
       THEN CHOOSE i \in 1..Len(s) : s[i] = c /\ \A j \in 1..(i - 1) : s[j] /= c
       ELSE 0

\* strconv.ParseUint's value of one character; 36 and more is no digit
DigitValue(c) ==
    IF IndexOf(c, Digits) > 0 THEN IndexOf(c, Digits) - 1
    ELSE IF IndexOf(c, LowerLetters) > 0 THEN IndexOf(c, LowerLetters) + 9
    ELSE IF IndexOf(c, UpperLetters) > 0 THEN IndexOf(c, UpperLetters) + 9
    ELSE 36

RECURSIVE ParseUintFrom(_, _, _, _)
ParseUintFrom(s, base, i, acc) ==
    IF i > Len(s) THEN [ok |-> TRUE, val |-> acc]
    ELSE IF DigitValue(s[i]) >= base THEN [ok |-> FALSE, val |-> 0]
    ELSE ParseUintFrom(s, base, i + 1, acc * base + DigitValue(s[i]))

\* strconv.ParseUint(s, base, bitSize) for base 10 and 16: no sign, no
\* prefix, no underscore, at least one digit.  The numerals of the model
\* have at most seven digits, so that the range error of bitSize 32 and 64
\* does not arise.
ParseUint(s, base) ==
    IF s = <<>> THEN [ok |-> FALSE, val |-> 0] ELSE ParseUintFrom(s, base, 1, 0)

\* strings.Split(s, sep) for a separator of one character
RECURSIVE Split(_, _)
Split(s, sep) ==
    LET i == IndexOf(sep, s)
    IN  IF i = 0 THEN <<s>>
        ELSE <<SubSeq(s, 1, i - 1)>> \o Split(SubSeq(s, i + 1, Len(s)), sep)

\* fmt.Sprintf("%d", n) and strconv.Itoa(n) for n >= 0
RECURSIVE FormatDec(_)
FormatDec(n) ==
    IF n < 10 THEN <<Digits[n + 1]>>
    ELSE FormatDec(n \div 10) \o <<Digits[(n % 10) + 1]>>

HexDigits == Digits \o SubSeq(LowerLetters, 1, 6)

\* fmt.Sprintf("%x", n)
RECURSIVE FormatHex(_)
FormatHex(n) ==
    IF n < 16 THEN <<HexDigits[n + 1]>>
    ELSE FormatHex(n \div 16) \o <<HexDigits[(n % 16) + 1]>>

\* the zero padding of the verb %04x
RECURSIVE PadZero(_, _)
PadZero(s, width) == IF Len(s) >= width THEN s ELSE PadZero(<<"0">> \o s, width)

\* fmt.Sprintf("0x%04x", n)
FormatIoBase(n) == <<"0", "x">> \o PadZero(FormatHex(n), 4)

(***************************************************************************)
(* The UART codec (src/uart.go).                                           *)
(***************************************************************************)
sUart == <<"u", "a", "r", "t">>

sUartmode == <<"u", "a", "r", "t", "m", "o", "d", "e">>

sUarttype == <<"u", "a", "r", "t", "t", "y", "p", "e">>

sOff == <<"o", "f", "f">>

\* the UARTKey constants: UARTKey.UART1 is UART1
UARTKey ==
    [ UART1 |-> sUart \o <<"1">>, UART2 |-> sUart \o <<"2">>,
      UART3 |-> sUart \o <<"3">>, UART4 |-> sUart \o <<"4">> ]

\* the UARTType constants: UARTType.T16450 is UARTT16450
UARTType ==
    [ T16450 |-> <<"1", "6", "4", "5", "0">>,
      T16550A |-> <<"1", "6", "5", "5", "0", "A">>,
      T16750 |-> <<"1", "6", "7", "5", "0">> ]

\* the UARTMode constants: UARTMode.Server is UARTModeServer
UARTMode ==
    [ Server |-> <<"s", "e", "r", "v", "e", "r">>,
      Client |-> <<"c", "l", "i", "e", "n", "t">>,
      TCPServer |-> <<"t", "c", "p", "s", "e", "r", "v", "e", "r">>,
      TCPClient |-> <<"t", "c", "p", "c", "l", "i", "e", "n", "t">>,
      File |-> <<"f", "i", "l", "e">>,
      Disconnected |->
          <<"d", "i", "s", "c", "o", "n", "n", "e", "c", "t", "e", "d">> ]

\* UARTKey.ToRank; 0 stands for the panic on an unknown key
ToRank(key) ==
    IF key = UARTKey.UART1 THEN 1
    ELSE IF key = UARTKey.UART2 THEN 2
    ELSE IF key = UARTKey.UART3 THEN 3
    ELSE IF key = UARTKey.UART4 THEN 4
    ELSE 0

UARTKeyFromRank(rank) ==
    IF rank = 1 THEN [err |-> FALSE, key |-> UARTKey.UART1]
    ELSE IF rank = 2 THEN [err |-> FALSE, key |-> UARTKey.UART2]
    ELSE IF rank = 3 THEN [err |-> FALSE, key |-> UARTKey.UART3]
    ELSE IF rank = 4 THEN [err |-> FALSE, key |-> UARTKey.UART4]
    ELSE [err |-> TRUE, key |-> <<>>]

IsSupportedUARTType(uartType) ==
    uartType \in {UARTType.T16450, UARTType.T16550A, UARTType.T16750}

\* BasicSerialComConfig{}
ZeroComConfig == [Port |-> 0, IRQ |-> 0]

\* UART{Key: key}
UARTOffFromKey(key) ==
    [ComConfig |-> ZeroComConfig, Type |-> <<>>, Mode |-> <<>>,
     ModeData |-> <<>>, Key |-> key]

\* BasicSerialComConfig.initFromVMInfoValue: status is "ok", "error", or
\* "panic" when splits[0][2:] slices a string of fewer than two characters
initFromVMInfoValue(vmInfoValue) ==
    LET splits == Split(vmInfoValue, ",")
    IN IF Len(splits) # 2 THEN [status |-> "error", cc |-> ZeroComConfig]
       ELSE IF Len(splits[1]) < 2 THEN [status |-> "panic", cc |-> ZeroComConfig]
       ELSE LET ioBase == ParseUint(SubSeq(splits[1], 3, Len(splits[1])), 16)
                irq == ParseUint(splits[2], 10)
            IN IF ~ioBase.ok \/ ~irq.ok
                  THEN [status |-> "error", cc |-> ZeroComConfig]
                  ELSE [status |-> "ok",
                        cc |-> [Port |-> ioBase.val, IRQ |-> irq.val]]

\* UART.initUARTModeFromVMInfoMap
initUARTModeFromVMInfoMap(uart, propMap) ==
    LET modeName == sUartmode \o FormatDec(ToRank(uart.Key))
    IN IF modeName \notin DOMAIN propMap THEN [err |-> FALSE, uart |-> uart]
       ELSE LET modeStrValue == propMap[modeName]
                modeStartValueSplits == Split(modeStrValue, ",")
            IN IF modeStrValue = UARTMode.Disconnected
                  THEN [err |-> FALSE,
                        uart |-> [uart EXCEPT !.Mode = UARTMode.Disconnected]]
               ELSE IF Len(modeStartValueSplits) = 2
                  THEN IF modeStartValueSplits[1] \in
                             {UARTMode.Client, UARTMode.Disconnected, UARTMode.File,
                              UARTMode.Server, UARTMode.TCPClient, UARTMode.TCPServer}
                          THEN [err |-> FALSE,
                                uart |-> [uart EXCEPT
                                            !.Mode = modeStartValueSplits[1],
                                            !.ModeData = modeStartValueSplits[2]]]
                          ELSE [err |-> TRUE, uart |-> uart]
               ELSE [err |-> TRUE, uart |-> uart]

\* UART.initUARTTypeFromVMInfoMap
initUARTTypeFromVMInfoMap(uart, propMap) ==
    LET typeName == sUarttype \o FormatDec(ToRank(uart.Key))
    IN IF typeName \notin DOMAIN propMap THEN [err |-> FALSE, uart |-> uart]
       ELSE IF ~IsSupportedUARTType(propMap[typeName])
          THEN [err |-> TRUE, uart |-> uart]
          ELSE [err |-> FALSE, uart |-> [uart EXCEPT !.Type = propMap[typeName]]]

\* a slot decoding that reads uartmode<N> and uarttype<N> whatever uart<N> holds
NewUARTsSlotAlwaysModeType(key, propMap) ==
    LET uart == UARTOffFromKey(key)
        withCom ==
            IF key \in DOMAIN propMap /\ propMap[key] # sOff
               THEN initFromVMInfoValue(propMap[key])
               ELSE [status |-> "ok", cc |-> ZeroComConfig]
        withMode ==
            initUARTModeFromVMInfoMap([uart EXCEPT !.ComConfig = withCom.cc], propMap)
        withType == initUARTTypeFromVMInfoMap(withMode.uart, propMap)
    IN IF withCom.status # "ok" THEN [status |-> withCom.status, uart |-> uart]
       ELSE IF withMode.err \/ withType.err THEN [status |-> "error", uart |-> uart]
       ELSE [status |-> "ok", uart |-> withType.uart]

\* the body of the loop of NewUARTs for the slot of key
NewUARTsSlot(key, propMap) ==
    LET uart == UARTOffFromKey(key)
    IN IF key \in DOMAIN propMap /\ propMap[key] # sOff
          THEN LET withCom == initFromVMInfoValue(propMap[key])
                   withMode ==
                       initUARTModeFromVMInfoMap(
                           [uart EXCEPT !.ComConfig = withCom.cc], propMap)
                   withType == initUARTTypeFromVMInfoMap(withMode.uart, propMap)
               IN IF withCom.status # "ok"
                     THEN [status |-> withCom.status, uart |-> uart]
                  ELSE IF withMode.err THEN [status |-> "error", uart |-> uart]
                  ELSE IF withType.err THEN [status |-> "error", uart |-> uart]
                  ELSE [status |-> "ok", uart |-> withType.uart]
          ELSE [status |-> "ok", uart |-> uart]

\* the loop of NewUARTs from slot i on, uarts holding the slots before i
RECURSIVE NewUARTsLoop(_, _, _)
NewUARTsLoop(propMap, i, uarts) ==
    IF i > 4 THEN [status |-> "ok", uarts |-> uarts]
    ELSE LET key == UARTKeyFromRank(i)
             slot == NewUARTsSlot(key.key, propMap)
         IN IF key.err THEN [status |-> "error", uarts |-> <<>>]
            ELSE IF slot.status # "ok" THEN [status |-> slot.status, uarts |-> <<>>]
            ELSE NewUARTsLoop(propMap, i + 1, Append(uarts, slot.uart))

NewUARTs(propMap) == NewUARTsLoop(propMap, 1, <<>>)

\* BasicSerialComConfig.toVMInfoValueUARTn: the value of uart<N>
toVMInfoValueUARTn(comConfig) ==
    FormatIoBase(comConfig.Port) \o <<",">> \o FormatDec(comConfig.IRQ)

\* the value of uartmode<N> in the machine readable VM info
toVMInfoValueUARTModeN(uart) ==
    IF uart.Mode = UARTMode.Disconnected THEN UARTMode.Disconnected
    ELSE uart.Mode \o <<",">> \o uart.ModeData

\* the map m with key k set to v
MapPut(m, k, v) == [x \in DOMAIN m \cup {k} |-> IF x = k THEN v ELSE m[x]]

\* the properties of one non-off UART as the machine readable VM info shows them
UARTProps(uart) ==
    LET rank == FormatDec(ToRank(uart.Key))
    IN MapPut(MapPut(MapPut(<<>>, uart.Key, toVMInfoValueUARTn(uart.ComConfig)),
                     sUartmode \o rank, toVMInfoValueUARTModeN(uart)),
              sUarttype \o rank, uart.Type)

(***************************************************************************)
(* NewUART: a UART from the strings of its fields.  The result is          *)
(* [uart, errs]: uart is <<>> for nil and <<u>> for a pointer to u, errs   *)
(* holds the errors appended to the multierror in their order, each named  *)
(* after the field it is about; an empty errs is the nil error.            *)
(***************************************************************************)
IsSupportedKey(key) ==
    key \in {UARTKey.UART1, UARTKey.UART2, UARTKey.UART3, UARTKey.UART4}

\* UARTModelAllSupported: the list the unsupported-mode error reports
UARTModelAllSupported ==
    <<UARTMode.Server, UARTMode.Client,
      UARTMode.TCPClient, UARTMode.Server,
      UARTMode.File, UARTMode.Disconnected>>

\* UARTModeFromStringIfSupported: the switch on the mode string
UARTModeFromStringIfSupported(uartModeStr) ==
    IF uartModeStr = <<"s", "e", "r", "v", "e", "r">>
       THEN [err |-> FALSE, mode |-> UARTMode.Server]
    ELSE IF uartModeStr = <<"c", "l", "i", "e", "n", "t">>
       THEN [err |-> FALSE, mode |-> UARTMode.Server]
    ELSE IF uartModeStr = <<"t", "c", "p", "s", "e", "r", "v", "e", "r">>
       THEN [err |-> FALSE, mode |-> UARTMode.TCPServer]
    ELSE IF uartModeStr = <<"t", "c", "p", "c", "l", "i", "e", "n", "t">>
       THEN [err |-> FALSE, mode |-> UARTMode.TCPClient]
    ELSE IF uartModeStr = <<"f", "i", "l", "e">>
       THEN [err |-> FALSE, mode |-> UARTMode.File]
    ELSE IF uartModeStr =
               <<"d", "i", "s", "c", "o", "n", "n", "e", "c", "t", "e", "d">>
       THEN [err |-> FALSE, mode |-> UARTMode.Disconnected]
    ELSE [err |-> TRUE, mode |-> <<>>]

\* UARTTypeFromStringIfSupported: the named result uartType is the string
\* given, also when it comes with an error
UARTTypeFromStringIfSupported(uartTypeStr) ==
    [err |-> ~IsSupportedUARTType(uartTypeStr), uartType |-> uartTypeStr]

\* the end of the run of hexadecimal digits of s that starts at position i
RECURSIVE HexRunEnd(_, _)
HexRunEnd(s, i) ==
    IF i <= Len(s) /\ DigitValue(s[i]) < 16 THEN HexRunEnd(s, i + 1) ELSE i

\* the first position of s from i on that holds no blank
RECURSIVE SkipBlanks(_, _)
SkipBlanks(s, i) ==
    IF i <= Len(s) /\ s[i] \in {" ", "\t"} THEN SkipBlanks(s, i + 1) ELSE i

\* fmt.Sscanf(portStr, "0x%x", &port): the literal 0x, then blanks, then a
\* run of hexadecimal digits; what follows the run is not read
SscanfPort(portStr) ==
    IF Len(portStr) < 2 \/ SubSeq(portStr, 1, 2) # <<"0", "x">>
       THEN [ok |-> FALSE, val |-> 0]
       ELSE ParseUint(SubSeq(portStr, SkipBlanks(portStr, 3),
                             HexRunEnd(portStr, SkipBlanks(portStr, 3)) - 1), 16)

\* NewUART after the check of the key: port and irq are the results of
\* scanning portStr and irqStr
NewUARTFields(key, uartType, mode, modeDataStr, portStr, irqStr, port, irq) ==
    [uart |-> <<[ComConfig |-> IF portStr # <<>> /\ irqStr # <<>>
                                  THEN [Port |-> port.val, IRQ |-> irq.val]
                                  ELSE ZeroComConfig,
                 Type |-> uartType.uartType,
                 Mode |-> mode.mode,
                 ModeData |-> modeDataStr,
                 Key |-> key]>>,
     errs |-> (IF mode.err THEN <<"mode">> ELSE <<>>)
                  \o (IF portStr # <<>> /\ irqStr # <<>>
                         THEN (IF port.ok THEN <<>> ELSE <<"port">>)
                                  \o (IF irq.ok THEN <<>> ELSE <<"irq">>)
                      ELSE IF portStr # <<>> \/ irqStr # <<>>
                         THEN <<"port and irq">>
                      ELSE <<>>)
                  \o (IF uartType.err THEN <<"type">> ELSE <<>>)]

NewUART(keyStr, typeStr, portStr, irqStr, modeStr, modeDataStr) ==
    IF ~IsSupportedKey(keyStr) THEN [uart |-> <<>>, errs |-> <<"key">>]
    ELSE NewUARTFields(keyStr, UARTTypeFromStringIfSupported(typeStr),
                       UARTModeFromStringIfSupported(modeStr), modeDataStr,
                       portStr, irqStr, SscanfPort(portStr),
                       ParseUint(irqStr, 10))

(***************************************************************************)
(* The modifyvm parameters of a UART and of a UARTs collection.  A         *)
(* command function yields <<cmdName, cmdValue>>, the empty name standing  *)
(* for "no parameter".                                                     *)
(***************************************************************************)
\* UART.IsOff
IsOff(uart) == uart.ComConfig = ZeroComConfig

\* fmt.Sprintf("--" + name + "%d", uart.Key.ToRank())
RankedName(name, uart) == <<"-", "-">> \o name \o FormatDec(ToRank(uart.Key))

commandParameterUartN(uart) ==
    IF IsOff(uart) THEN <<RankedName(sUart, uart), sOff>>
    ELSE <<RankedName(sUart, uart),
           FormatIoBase(uart.ComConfig.Port) \o <<" ">>
               \o FormatDec(uart.ComConfig.IRQ)>>

\* a mode parameter that does not look at IsOff
commandParameterUARTModeNAlsoWhenOff(uart) ==
    IF uart.Mode = UARTMode.Disconnected
       THEN <<RankedName(sUartmode, uart), UARTMode.Disconnected>>
       ELSE <<RankedName(sUartmode, uart), uart.Mode \o <<" ">> \o uart.ModeData>>

commandParameterUARTModeN(uart) ==
    IF IsOff(uart) THEN <<<<>>, <<>>>>
    ELSE IF uart.Mode = UARTMode.Disconnected
       THEN <<RankedName(sUartmode, uart), UARTMode.Disconnected>>
       ELSE <<RankedName(sUartmode, uart), uart.Mode \o <<" ">> \o uart.ModeData>>

commandParameterUARTTypeN(uart) ==
    IF IsOff(uart) THEN <<<<>>, <<>>>>
    ELSE <<RankedName(sUarttype, uart), uart.Type>>

\* the body of the loop of commandParameters for one command function
CommandTokens(cmd) ==
    IF cmd[1] # <<>> THEN <<cmd[1]>> \o Split(cmd[2], " ") ELSE <<>>

\* UART.commandParameters; ToRank panics on a key that is none of the four
commandParameters(uart) ==
    IF ~IsSupportedKey(uart.Key) THEN [status |-> "panic", commands |-> <<>>]
    ELSE [status |-> "ok",
          commands |-> CommandTokens(commandParameterUartN(uart))
                           \o CommandTokens(commandParameterUARTModeN(uart))
                           \o CommandTokens(commandParameterUARTTypeN(uart))]

\* the loop of UARTs.ModifyVMCommandParameters from element i on
RECURSIVE ModifyVMCommandParametersLoop(_, _, _)
ModifyVMCommandParametersLoop(uarts, i, cmdParams) ==
    IF i > Len(uarts) THEN [status |-> "ok", cmdParams |-> cmdParams]
    ELSE IF commandParameters(uarts[i]).status # "ok"
       THEN [status |-> commandParameters(uarts[i]).status, cmdParams |-> <<>>]
    ELSE ModifyVMCommandParametersLoop(
             uarts, i + 1, cmdParams \o commandParameters(uarts[i]).commands)

ModifyVMCommandParameters(uarts) == ModifyVMCommandParametersLoop(uarts, 1, <<>>)

\* WithoutUARTHavingStateOff: the UARTs that are not off move to the front
\* in their order and the collection is cut after them
RECURSIVE WithoutUARTHavingStateOffLoop(_, _, _)
WithoutUARTHavingStateOffLoop(uarts, i, kept) ==
    IF i > Len(uarts) THEN kept
    ELSE IF IsOff(uarts[i]) THEN WithoutUARTHavingStateOffLoop(uarts, i + 1, kept)
    ELSE WithoutUARTHavingStateOffLoop(uarts, i + 1, Append(kept, uarts[i]))

WithoutUARTHavingStateOff(uarts) == WithoutUARTHavingStateOffLoop(uarts, 1, <<>>)

NewUARTsAllOff ==
    <<UARTOffFromKey(UARTKey.UART1), UARTOffFromKey(UARTKey.UART2),
      UARTOffFromKey(UARTKey.UART3), UARTOffFromKey(UARTKey.UART4)>>

\* NewUARTsFromUARTMap: the collection comes back also with an error
NewUARTsFromUARTMap(uartsByKey) ==
    [err |-> \E key \in DOMAIN uartsByKey : ~IsSupportedKey(key),
     uarts |-> [i \in 1..4 |->
                   IF UARTKeyFromRank(i).key \in DOMAIN uartsByKey
                      THEN uartsByKey[UARTKeyFromRank(i).key]
                      ELSE NewUARTsAllOff[i]]]

(***************************************************************************)
(* The inputs of the UART codec.                                           *)
(***************************************************************************)
UARTKeys == {UARTKey.UART1, UARTKey.UART2, UARTKey.UART3, UARTKey.UART4}

UARTTypes == {UARTType.T16450, UARTType.T16550A, UARTType.T16750}

\* the six modes, each with mode data of its shape: a pipe, a port, a
\* host and port, a file (one of the file names holds a comma), nothing
ModeAndData ==
    {<<UARTMode.Server, <<"/", "p">>>>,
     <<UARTMode.Client, <<"/", "p">>>>,
     <<UARTMode.TCPServer, <<"6", "6">>>>,
     <<UARTMode.TCPClient, <<"h", ":", "6">>>>,
     <<UARTMode.File, <<"/", "a">>>>,
     <<UARTMode.File, <<"/", "a", ",", "b">>>>,
     <<UARTMode.Disconnected, <<>>>>}

\* I/O base and IRQ pairs other than the zero pair: 0x3f8 is COM1's base
ComConfigs ==
    {[Port |-> p, IRQ |-> q] : p \in {0, 1016, 65535}, q \in {0, 4}}
        \ {ZeroComConfig}

EncodableUARTs ==
    {[ComConfig |-> cc, Type |-> t, Mode |-> md[1], ModeData |-> md[2], Key |-> k] :
        cc \in ComConfigs, t \in UARTTypes, md \in ModeAndData, k \in UARTKeys}

\* raw values of uart<N>: well shaped ones, and the malformed ones
RawUartValues ==
    {sOff,
     <<"0", "x", "0", "3", "f", "8", ",", "4">>,
     <<"0", "x", "0", "3", "f", "8">>,
     <<"0", "x", "0", "3", "f", "8", ",", "4", ",", "5">>,
     <<"a", "b", "0", "3", "f", "8", ",", "4">>,
     <<"3", ",", "4">>,
     <<"0", "x", ",", "4">>,
     <<"0", "x", "0", "3", "f", "8", ",", "x">>}

RawModeValues ==
    {UARTMode.Disconnected,
     UARTMode.File \o <<",", "/", "a">>,
     UARTMode.TCPServer \o <<",", "6">>,
     <<"b", "o", "g", "u", "s", ",", "/", "a">>,
     UARTMode.File}

RawTypeValues == {UARTType.T16550A, <<"b", "o", "g", "u", "s">>}

RawProps ==
    {<<k, v>> : k \in UARTKeys, v \in RawUartValues}
        \cup {<<sUartmode \o <<Digits[n + 1]>>, v>> : n \in 1..4, v \in RawModeValues}
        \cup {<<sUarttype \o <<Digits[n + 1]>>, v>> : n \in 1..4, v \in RawTypeValues}

(***************************************************************************)
(* The operations on the UART codec.                                       *)
(***************************************************************************)
\* the VM info of a machine with the one serial port uart, the others absent
EncodeUART(uart) ==
    /\ uartsRes.status = "none"
    /\ vmPropMap = <<>>
    /\ encoded = <<>>
    /\ vmPropMap' = UARTProps(uart)
    /\ encoded' = <<uart>>
    /\ UNCHANGED uartsRes
    /\ UNCHANGED otherThanUART

\* one more raw line of VM info
SetProp(key, value) ==
    /\ uartsRes.status = "none"
    /\ encoded = <<>>
    /\ key \notin DOMAIN vmPropMap
    /\ Cardinality(DOMAIN vmPropMap) < MaxRawProps
    /\ vmPropMap' = MapPut(vmPropMap, key, value)
    /\ UNCHANGED <<encoded, uartsRes>>
    /\ UNCHANGED otherThanUART

CallNewUARTs ==
    /\ uartsRes.status = "none"
    /\ uartsRes' = NewUARTs(vmPropMap)
    /\ UNCHANGED <<vmPropMap, encoded>>
    /\ UNCHANGED otherThanUART

(***************************************************************************)
(* The inputs and the operation of NewUART.                                *)
(***************************************************************************)
KeyStrs == {UARTKey.UART1, UARTKey.UART4, <<"u", "a", "r", "t", "5">>, <<>>}

TypeStrs == UARTTypes \cup {<<"b", "o", "g", "u", "s">>, <<>>}

\* 0x2f8, 0x3E8 of the tests; no prefix; no digit; a blank after the
\* prefix; a letter after the digits; the empty string
PortStrs ==
    {<<"0", "x", "2", "f", "8">>, <<"0", "x", "3", "E", "8">>, <<"2", "f", "8">>, <<"0", "x">>,
     <<"0", "x", " ", "2", "f", "8">>, <<"0", "x", "2", "f", "8", "z">>, <<>>}

IrqStrs == {<<"3">>, <<"x">>, <<>>}

ModeStrs ==
    {UARTMode.Server, UARTMode.Client, UARTMode.TCPServer, UARTMode.TCPClient,
     UARTMode.File, UARTMode.Disconnected, <<"b", "o", "g", "u", "s">>, <<>>}

ModeDataStrs == {<<"/", "t", "m", "p", "/", "u">>, <<>>}

CallNewUART(keyStr, typeStr, portStr, irqStr, modeStr, modeDataStr) ==
    /\ newUartRes.in = <<>>
    /\ newUartRes' =
           [in |-> <<keyStr, typeStr, portStr, irqStr, modeStr, modeDataStr>>,
            res |-> NewUART(keyStr, typeStr, portStr, irqStr, modeStr,
                            modeDataStr)]
    /\ UNCHANGED otherThanNewUART

(***************************************************************************)
(* The inputs and the operations of the modifyvm parameters: the caller    *)
(* fills a map of UARTs, makes the collection of the four slots from it    *)
(* and asks for the parameters of the collection.                          *)
(***************************************************************************)
\* the six modes with data, a file name holding a blank, an empty file
\* name, and disconnected with left-over data
CmdModeAndData ==
    {<<UARTMode.Server, <<"/", "p">>>>,
     <<UARTMode.Client, <<"/", "p">>>>,
     <<UARTMode.TCPServer, <<"6", "6">>>>,
     <<UARTMode.TCPClient, <<"h", ":", "6">>>>,
     <<UARTMode.File, <<"/", "a">>>>,
     <<UARTMode.File, <<"/", "a", " ", "b">>>>,
     <<UARTMode.File, <<>>>>,
     <<UARTMode.Disconnected, <<>>>>,
     <<UARTMode.Disconnected, <<"/", "a">>>>}

\* COM2, a pair with a port only, and the zero pair of an off UART
CmdComConfigs == {ZeroComConfig, [Port |-> 760, IRQ |-> 3], [Port |-> 1000, IRQ |-> 0]}

\* the UARTs a caller puts under key; the type goes with the IRQ
CmdUARTs(key) ==
    {[ComConfig |-> cc,
      Type |-> IF cc.IRQ = 3 THEN UARTType.T16550A ELSE UARTType.T16750,
      Mode |-> md[1], ModeData |-> md[2], Key |-> key] :
        cc \in CmdComConfigs, md \in CmdModeAndData}
        \ {u \in [ComConfig : {[Port |-> 1000, IRQ |-> 0]},
                   Type : {UARTType.T16750},
                   Mode : {md[1] : md \in CmdModeAndData},
                   ModeData : {md[2] : md \in CmdModeAndData},
                   Key : {key}] : u.Mode # UARTMode.TCPServer}

\* uartMap[key] = uart in the caller
PutUART(key, uart) ==
    /\ uartsColl.status = "none"
    /\ key \notin DOMAIN uartMap
    /\ Cardinality(DOMAIN uartMap) < MaxUARTMapEntries
    /\ uartMap' = MapPut(uartMap, key, uart)
    /\ UNCHANGED <<uartsColl, cmdRes>>
    /\ UNCHANGED otherThanUARTCmd

\* the keys a caller may have for an entry of the map: the four known keys
\* and a fifth, which is a UARTKey as any string is
CallerMapKeys == UARTKeys \cup {<<"u", "a", "r", "t", "5">>}

\* the UARTs a caller may have built as struct values: the Key field is one
\* of the four keys or is left at its zero value
CallerUARTs ==
    {[ComConfig |-> cc, Type |-> UARTType.T16550A, Mode |-> UARTMode.File,
      ModeData |-> <<"/", "a">>, Key |-> k] :
        cc \in {ZeroComConfig, [Port |-> 760, IRQ |-> 3]},
        k \in UARTKeys \cup {<<>>}}

\* uartMap[key] = uart in the caller, for any key and any UART value
PutUARTUnder(key, uart) ==
    /\ uartsColl.status = "none"
    /\ key \notin DOMAIN uartMap
    /\ Cardinality(DOMAIN uartMap) < MaxUARTMapEntries
    /\ uartMap' = MapPut(uartMap, key, uart)
    /\ UNCHANGED <<uartsColl, cmdRes>>
    /\ UNCHANGED otherThanUARTCmd

CallNewUARTsFromUARTMap ==
    /\ uartsColl.status = "none"
    /\ uartsColl' =
           [status |-> IF NewUARTsFromUARTMap(uartMap).err THEN "error" ELSE "ok",
            uarts |-> NewUARTsFromUARTMap(uartMap).uarts,
            trimmed |-> FALSE]
    /\ UNCHANGED <<uartMap, cmdRes>>
    /\ UNCHANGED otherThanUARTCmd

\* uarts.WithoutUARTHavingStateOff() on the collection, which changes in
\* place; uartsColl.trimmed records that the collection is no longer the
\* one NewUARTsFromUARTMap returned
CallWithoutUARTHavingStateOff ==
    /\ uartsColl.status # "none"
    /\ cmdRes.status = "none"
    /\ uartsColl' = [uartsColl EXCEPT
                        !.uarts = WithoutUARTHavingStateOff(@),
                        !.trimmed = TRUE]
    /\ UNCHANGED <<uartMap, cmdRes>>
    /\ UNCHANGED otherThanUARTCmd

CallModifyVMCommandParameters ==
    /\ uartsColl.status # "none"
    /\ cmdRes.status = "none"
    /\ cmdRes' = ModifyVMCommandParameters(uartsColl.uarts)
    /\ UNCHANGED <<uartMap, uartsColl>>
    /\ UNCHANGED otherThanUARTCmd

(***************************************************************************)
(* The storage controller codec (src/uart.go, second file of the listing). *)
(* A StorageController is [Name, SysBus, Ports, Chipset, HostIOCache,      *)
(* Bootable, Devices], a StorageMedium is [Port, Device, DriveType,        *)
(* Medium, UUID].                                                          *)
(***************************************************************************)
\* "storagecontrollername"+iStr and the other keys of controller iStr
nameKey(iStr) ==
    <<"s", "t", "o", "r", "a", "g", "e", "c", "o", "n", "t", "r", "o", "l",
      "l", "e", "r", "n", "a", "m", "e">> \o iStr

typeKey(iStr) ==
    <<"s", "t", "o", "r", "a", "g", "e", "c", "o", "n", "t", "r", "o", "l",
      "l", "e", "r", "t", "y", "p", "e">> \o iStr

portCountKey(iStr) ==
    <<"s", "t", "o", "r", "a", "g", "e", "c", "o", "n", "t", "r", "o", "l",
      "l", "e", "r", "p", "o", "r", "t", "c", "o", "u", "n", "t">> \o iStr

bootableKey(iStr) ==
    <<"s", "t", "o", "r", "a", "g", "e", "c", "o", "n", "t", "r", "o", "l",
      "l", "e", "r", "b", "o", "o", "t", "a", "b", "l", "e">> \o iStr

sNone == <<"n", "o", "n", "e">>

sOn == <<"o", "n">>

sUnknown == <<"u", "n", "k", "n", "o", "w", "n">>

\* the SystemBus constants: SysBus.IDE is SysBus.IDE
SysBus ==
    [ IDE |-> <<"i", "d", "e">>,
      SATA |-> <<"s", "a", "t", "a">>,
      SCSI |-> <<"s", "c", "s", "i">>,
      Floppy |-> <<"f", "l", "o", "p", "p", "y">>,
      SAS |-> <<"s", "a", "s">>,
      USB |-> <<"u", "s", "b">>,
      PCI |-> <<"p", "c", "i", "e">>,
      VirtioSCSI |-> <<"v", "i", "r", "t", "i", "o">> ]

\* the StorageControllerChipset constants: Ctrl.PIIX4 is Ctrl.PIIX4, Ctrl.USB
\* is Ctrl.USB
Ctrl ==
    [ LSILogic |-> <<"L", "S", "I", "L", "o", "g", "i", "c">>,
      LSILogicSAS |-> <<"L", "S", "I", "L", "o", "g", "i", "c", "S", "A", "S">>,
      BusLogic |-> <<"B", "u", "s", "L", "o", "g", "i", "c">>,
      IntelAHCI |-> <<"I", "n", "t", "e", "l", "A", "H", "C", "I">>,
      PIIX3 |-> <<"P", "I", "I", "X", "3">>,
      PIIX4 |-> <<"P", "I", "I", "X", "4">>,
      ICH6 |-> <<"I", "C", "H", "6">>,
      I82078 |-> <<"I", "8", "2", "0", "7", "8">>,
      USB |-> <<"U", "S", "B">>,
      NVMe |-> <<"N", "V", "M", "e">>,
      VirtioSCSI |-> <<"V", "i", "r", "t", "I", "O">> ]

\* the type tokens of VBoxManage showvminfo, the case labels of the type table
scTypes ==
    [ IntelAhci |-> <<"I", "n", "t", "e", "l", "A", "h", "c", "i">>,
      LsiLogic |-> <<"L", "s", "i", "L", "o", "g", "i", "c">>,
      BusLogic |-> <<"B", "u", "s", "L", "o", "g", "i", "c">>,
      PIIX3 |-> <<"P", "I", "I", "X", "3">>,
      PIIX4 |-> <<"P", "I", "I", "X", "4">>,
      ICH6 |-> <<"I", "C", "H", "6">>,
      I82078 |-> <<"I", "8", "2", "0", "7", "8">>,
      LsiLogicSas |-> <<"L", "s", "i", "L", "o", "g", "i", "c", "S", "a", "s">>,
      USB |-> <<"U", "S", "B">>,
      NVMe |-> <<"N", "V", "M", "e">>,
      VirtioSCSI |-> <<"V", "i", "r", "t", "i", "o", "S", "C", "S", "I">> ]

\* vmPropMap[key] of Go: the zero value "" when the key is absent
MapGet(m, k) == IF k \in DOMAIN m THEN m[k] ELSE <<>>

\* strconv.Atoi(s): an optional sign, then at least one decimal digit
Atoi(s) ==
    LET signed == s /= <<>> /\ s[1] \in {"+", "-"}
        r == ParseUint(IF signed THEN Tail(s) ELSE s, 10)
    IN  IF ~r.ok THEN [ok |-> FALSE, val |-> 0]
        ELSE [ok |-> TRUE,
              val |-> IF signed /\ s[1] = "-" THEN 0 - r.val ELSE r.val]

\* StorageMedium.IsNone
IsNone(sm) == sm.UUID = <<>> /\ sm.Medium = sNone

\* a mutant of maxDevicePerPort: two devices per port on every bus
maxDevicePerPortAlwaysTwo(bus) == 2

maxDevicePerPort(bus) ==
    IF bus \in {SysBus.IDE, SysBus.Floppy} THEN 2 ELSE 1

\* a mutant of the type table: an unrecognized token is passed through
TypeToBusAndChipsetLenient(scType) ==
    CASE scType = scTypes.IntelAhci -> [err |-> FALSE, bus |-> SysBus.SATA, chipset |-> Ctrl.IntelAHCI]
      [] scType = scTypes.PIIX4 -> [err |-> FALSE, bus |-> SysBus.IDE, chipset |-> Ctrl.PIIX4]
      [] OTHER -> [err |-> FALSE, bus |-> scType, chipset |-> scType]

vmInfogStrorageControllerTypeToBusAndChipset(scType) ==
    CASE scType = scTypes.IntelAhci ->
             [err |-> FALSE, bus |-> SysBus.SATA, chipset |-> Ctrl.IntelAHCI]
      [] scType = scTypes.LsiLogic ->
             [err |-> FALSE, bus |-> SysBus.SCSI, chipset |-> Ctrl.LSILogic]
      [] scType = scTypes.BusLogic ->
             [err |-> FALSE, bus |-> SysBus.SCSI, chipset |-> Ctrl.BusLogic]
      [] scType = scTypes.PIIX3 ->
             [err |-> FALSE, bus |-> SysBus.IDE, chipset |-> Ctrl.PIIX3]
      [] scType = scTypes.PIIX4 ->
             [err |-> FALSE, bus |-> SysBus.IDE, chipset |-> Ctrl.PIIX4]
      [] scType = scTypes.ICH6 ->
             [err |-> FALSE, bus |-> SysBus.IDE, chipset |-> Ctrl.ICH6]
      [] scType = scTypes.I82078 ->
             [err |-> FALSE, bus |-> SysBus.Floppy, chipset |-> Ctrl.I82078]
      [] scType = scTypes.LsiLogicSas ->
             [err |-> FALSE, bus |-> SysBus.SAS, chipset |-> Ctrl.LSILogicSAS]
      [] scType = scTypes.USB ->
             [err |-> FALSE, bus |-> SysBus.USB, chipset |-> Ctrl.USB]
      [] scType = scTypes.NVMe ->
             [err |-> FALSE, bus |-> SysBus.PCI, chipset |-> Ctrl.NVMe]
      [] scType = scTypes.VirtioSCSI ->
             [err |-> FALSE, bus |-> SysBus.VirtioSCSI, chipset |-> Ctrl.VirtioSCSI]
      [] scType = sUnknown ->
             [err |-> FALSE, bus |-> scType, chipset |-> scType]
      [] OTHER -> [err |-> TRUE, bus |-> <<>>, chipset |-> <<>>]

\* "-" + strconv.Itoa(p) + "-" + strconv.Itoa(d)
indexSuffix(p, d) == <<"-">> \o FormatDec(p) \o <<"-">> \o FormatDec(d)

\* name+indexSuffix, the key of the medium of slot <<name, p, d>>
slotKey(slot) == slot[1] \o indexSuffix(slot[2], slot[3])

\* name+"-ImageUUID"+indexSuffix
uuidKey(slot) ==
    slot[1] \o <<"-", "I", "m", "a", "g", "e", "U", "U", "I", "D">>
            \o indexSuffix(slot[2], slot[3])

\* the two nested loops of findStorageMedia, from port p and device d on
RECURSIVE findStorageMediaLoop(_, _, _, _, _, _, _)
findStorageMediaLoop(name, maxDev, portCount, propMap, p, d, media) ==
    IF p >= portCount THEN media
    ELSE IF d >= maxDev
        THEN findStorageMediaLoop(name, maxDev, portCount, propMap, p + 1, 0, media)
    ELSE IF slotKey(<<name, p, d>>) \notin DOMAIN propMap
        THEN findStorageMediaLoop(name, maxDev, portCount, propMap, p, d + 1, media)
    ELSE LET sm == [Device |-> d,
                    DriveType |-> <<>>,
                    Medium |-> propMap[slotKey(<<name, p, d>>)],
                    Port |-> p,
                    UUID |-> MapGet(propMap, uuidKey(<<name, p, d>>))]
         IN  findStorageMediaLoop(name, maxDev, portCount, propMap, p, d + 1,
                 IF ~IsNone(sm) THEN Append(media, sm) ELSE media)

\* findStorageMedia: make() panics on the negative capacity portCount*2
findStorageMedia(name, bus, portCount, propMap) ==
    IF portCount * 2 < 0 THEN [status |-> "panic", media |-> <<>>]
    ELSE [status |-> "ok",
          media |-> findStorageMediaLoop(name, maxDevicePerPort(bus), portCount,
                                         propMap, 0, 0, <<>>)]

\* findStorageControllerByIndex: [status, sc]
findStorageControllerByIndex(name, iStr, propMap) ==
    LET scType == MapGet(propMap, typeKey(iStr))
        portCountStr == MapGet(propMap, portCountKey(iStr))
        portCount == Atoi(portCountStr)
        bootableStr == MapGet(propMap, bootableKey(iStr))
        bc == vmInfogStrorageControllerTypeToBusAndChipset(scType)
        media == findStorageMedia(name, bc.bus, portCount.val, propMap)
    IN  IF ~portCount.ok THEN [status |-> "error", sc |-> <<>>]
        ELSE IF bc.err THEN [status |-> "error", sc |-> <<>>]
        ELSE IF media.status /= "ok" THEN [status |-> media.status, sc |-> <<>>]
        ELSE [status |-> "ok",
              sc |-> [Name |-> name,
                      SysBus |-> bc.bus,
                      Chipset |-> bc.chipset,
                      Ports |-> portCount.val,
                      HostIOCache |-> FALSE,
                      Bootable |-> (bootableStr = sOn),
                      Devices |-> media.media]]

\* the loop of NewStorageControllersFromProps from index i on
RECURSIVE NewStorageControllersLoop(_, _, _)
NewStorageControllersLoop(propMap, i, ctrls) ==
    IF i >= 8 THEN [status |-> "ok", ctrls |-> ctrls]
    ELSE IF nameKey(FormatDec(i)) \notin DOMAIN propMap
        THEN NewStorageControllersLoop(propMap, i + 1, ctrls)
    ELSE LET r == findStorageControllerByIndex(
                      propMap[nameKey(FormatDec(i))],
                      FormatDec(i), propMap)
         IN  IF r.status /= "ok" THEN [status |-> r.status, ctrls |-> <<>>]
             ELSE NewStorageControllersLoop(propMap, i + 1, Append(ctrls, r.sc))

\* NewStorageControllersFromProps: [status, ctrls], status "ok", "error"
\* (nil list and an error) or "panic"
NewStorageControllersFromProps(propMap) ==
    NewStorageControllersLoop(propMap, 0, <<>>)

(***************************************************************************)
(* The inputs of the storage controller codec: the eight controllers of    *)
(* the VM info of TestNewStorageControllersFromProps, each present or      *)
(* not, the type tokens and port counts one of them may carry instead,     *)
(* and medium slots of the controllers IDE and SATA inside and outside     *)
(* their port and device ranges.                                           *)
(***************************************************************************)
nIDE == <<"I", "D", "E">>

nSATA == <<"S", "A", "T", "A">>

\* controller i of the VM info is ShowVMInfoControllers[i + 1]
ShowVMInfoControllers ==
    << [name |-> nIDE, type |-> scTypes.PIIX4, portcount |-> <<"2">>],
       [name |-> nSATA, type |-> scTypes.IntelAhci, portcount |-> <<"1">>],
       [name |-> <<"F", "l", "o", "p", "p", "y">>, type |-> scTypes.I82078,
        portcount |-> <<"1">>],
       [name |-> <<"L", "s", "i", "L", "o", "g", "i", "c">>, type |-> scTypes.LsiLogic,
        portcount |-> <<"1", "6">>],
       [name |-> <<"L", "s", "i", "L", "o", "g", "i", "c", " ", "S", "A", "S">>,
        type |-> scTypes.LsiLogicSas, portcount |-> <<"1">>],
       [name |-> <<"N", "V", "M", "e">>, type |-> sUnknown, portcount |-> <<"1">>],
       [name |-> <<"U", "S", "B">>, type |-> scTypes.USB, portcount |-> <<"8">>],
       [name |-> <<"V", "i", "r", "t", "I", "O">>, type |-> sUnknown,
        portcount |-> <<"1">> ] >>

KnownTypeTokens ==
    {scTypes.IntelAhci, scTypes.LsiLogic, scTypes.BusLogic, scTypes.PIIX3, scTypes.PIIX4, scTypes.ICH6, scTypes.I82078,
     scTypes.LsiLogicSas, scTypes.USB, scTypes.NVMe, scTypes.VirtioSCSI}

\* <<>> stands for the removal of the key, <<v>> for the value v
TypeChoices ==
    {<<>>} \cup {<<t>> : t \in KnownTypeTokens \cup
                     {sUnknown, <<"p", "i", "i", "x", "4">>, <<"S", "A", "T", "A">>}}

PortCountChoices ==
    {<<>>, << <<"x">> >>, << <<"-", "1">> >>, << <<"0">> >>, << <<"+", "2">> >>}

MediaSlots ==
    {<<nIDE, 0, 0>>, <<nIDE, 0, 1>>, <<nIDE, 1, 0>>, <<nIDE, 2, 0>>,
     <<nSATA, 0, 0>>, <<nSATA, 0, 1>>}

MediaValues ==
    {[Medium |-> <<"/", "a", ".", "v", "d", "i">>, UUID |-> << <<"8", "c">> >>],
     [Medium |-> sNone, UUID |-> <<>>],
     [Medium |-> sNone, UUID |-> << <<"8", "c">> >>]}

PresentControllers(m) == {i \in 0..7 : nameKey(FormatDec(i)) \in DOMAIN m}

PresentSlots(m) == {slot \in MediaSlots : slotKey(slot) \in DOMAIN m}

MapRemove(m, k) == [x \in DOMAIN m \ {k} |-> m[x]]

\* every controller of the map carries the type and port count of the VM info
AsShown(m) ==
    \A i \in PresentControllers(m) :
        /\ typeKey(FormatDec(i)) \in DOMAIN m
        /\ m[typeKey(FormatDec(i))] = ShowVMInfoControllers[i + 1].type
        /\ portCountKey(FormatDec(i)) \in DOMAIN m
        /\ m[portCountKey(FormatDec(i))] = ShowVMInfoControllers[i + 1].portcount

(***************************************************************************)
(* The operations on the storage controller codec.                         *)
(***************************************************************************)
\* the four lines of VM info of controller i
AddController(i) ==
    /\ ctrlsRes.status = "none"
    /\ i \notin PresentControllers(storagePropMap)
    /\ Cardinality(PresentControllers(storagePropMap)) < MaxControllers
    /\ AsShown(storagePropMap)
    /\ storagePropMap' =
           MapPut(MapPut(MapPut(MapPut(storagePropMap,
               nameKey(FormatDec(i)), ShowVMInfoControllers[i + 1].name),
               typeKey(FormatDec(i)), ShowVMInfoControllers[i + 1].type),
               portCountKey(FormatDec(i)), ShowVMInfoControllers[i + 1].portcount),
               bootableKey(FormatDec(i)), sOn)
    /\ UNCHANGED ctrlsRes
    /\ UNCHANGED otherThanStorage

\* the only controller of a map without media gets another type token, or none
SetControllerType(i, choice) ==
    /\ ctrlsRes.status = "none"
    /\ PresentControllers(storagePropMap) = {i}
    /\ PresentSlots(storagePropMap) = {}
    /\ typeKey(FormatDec(i)) \in DOMAIN storagePropMap
    /\ storagePropMap[typeKey(FormatDec(i))] = ShowVMInfoControllers[i + 1].type
    /\ choice /= <<ShowVMInfoControllers[i + 1].type>>
    /\ storagePropMap' =
           IF choice = <<>> THEN MapRemove(storagePropMap, typeKey(FormatDec(i)))
           ELSE MapPut(storagePropMap, typeKey(FormatDec(i)), choice[1])
    /\ UNCHANGED ctrlsRes
    /\ UNCHANGED otherThanStorage

\* the only controller of a map without media gets another port count, or none
SetPortCount(i, choice) ==
    /\ ctrlsRes.status = "none"
    /\ PresentControllers(storagePropMap) = {i}
    /\ PresentSlots(storagePropMap) = {}
    /\ portCountKey(FormatDec(i)) \in DOMAIN storagePropMap
    /\ storagePropMap[portCountKey(FormatDec(i))] = ShowVMInfoControllers[i + 1].portcount
    /\ choice /= <<ShowVMInfoControllers[i + 1].portcount>>
    /\ storagePropMap' =
           IF choice = <<>> THEN MapRemove(storagePropMap, portCountKey(FormatDec(i)))
           ELSE MapPut(storagePropMap, portCountKey(FormatDec(i)), choice[1])
    /\ UNCHANGED ctrlsRes
    /\ UNCHANGED otherThanStorage

\* the one or two lines of VM info of a medium slot
AttachMedium(slot, value) ==
    /\ ctrlsRes.status = "none"
    /\ slot \notin PresentSlots(storagePropMap)
    /\ Cardinality(PresentSlots(storagePropMap)) < MaxMedia
    /\ AsShown(storagePropMap)
    /\ storagePropMap' =
           IF value.UUID = <<>>
              THEN MapPut(storagePropMap, slotKey(slot), value.Medium)
              ELSE MapPut(MapPut(storagePropMap, slotKey(slot), value.Medium),
                          uuidKey(slot), value.UUID[1])
    /\ UNCHANGED ctrlsRes
    /\ UNCHANGED otherThanStorage

CallNewStorageControllersFromProps ==
    /\ ctrlsRes.status = "none"
    /\ ctrlsRes' = NewStorageControllersFromProps(storagePropMap)
    /\ UNCHANGED storagePropMap
    /\ UNCHANGED otherThanStorage

(***************************************************************************)
(* The listing parsers DHCPs (src/dhcp.go) and NATNets (src/natnet.go)     *)
(* and the library functions they call.  A net.IP and a net.IPMask are     *)
(* sequences of bytes, <<>> is nil.                                        *)
(***************************************************************************)
sNewline == "\n"

\* bufio.ScanLines on the pieces between the newlines: a final piece that
\* is empty is no line, and one trailing carriage return is dropped
ScanLines(out) ==
    LET pieces == Split(out, sNewline)
        kept == IF pieces[Len(pieces)] = <<>>
                   THEN SubSeq(pieces, 1, Len(pieces) - 1)
                   ELSE pieces
        dropCR(l) == IF l /= <<>> /\ l[Len(l)] = "\r"
                        THEN SubSeq(l, 1, Len(l) - 1)
                        ELSE l
    IN  [i \in 1..Len(kept) |-> dropCR(kept[i])]

\* the class \s of the regular expressions
IsSpace(c) == c \in {" ", "\t", "\n", "\r", "\f"}

\* the text of s from position i on without its leading white space
RECURSIVE SkipSpace(_, _)
SkipSpace(s, i) ==
    IF i <= Len(s) /\ IsSpace(s[i]) THEN SkipSpace(s, i + 1)
    ELSE SubSeq(s, i, Len(s))

\* reColonLine.FindStringSubmatch(line) for (.+):\s+(.*): <<>> is nil,
\* otherwise <<res[1], res[2]>>.  The greedy (.+) ends before the last
\* colon that has a character before it and white space after it.
reColonLine(line) ==
    LET colons == {c \in 2..(Len(line) - 1) :
                       line[c] = ":" /\ IsSpace(line[c + 1])}
    IN  IF colons = {} THEN <<>>
        ELSE <<SubSeq(line, 1, SetMax(colons) - 1),
               SkipSpace(line, SetMax(colons) + 1)>>

\* strings.ToLower on ASCII text
ToLower(s) ==
    [i \in 1..Len(s) |->
        IF IndexOf(s[i], UpperLetters) > 0
           THEN LowerLetters[IndexOf(s[i], UpperLetters)]
           ELSE s[i]]

\* one decimal field of a dotted quad: digits, no leading zero, at most 255
IPv4FieldOk(f) ==
    /\ ParseUint(f, 10).ok
    /\ Len(f) <= 3
    /\ ParseUint(f, 10).val <= 255
    /\ Len(f) > 1 => f[1] /= "0"

\* the address of the decimal fields f of a dotted quad
ParseIPv4Fields(f) ==
    IF Len(f) = 4 /\ \A i \in 1..4 : IPv4FieldOk(f[i])
       THEN [ok |-> TRUE, b |-> [i \in 1..4 |-> ParseUint(f[i], 10).val]]
       ELSE [ok |-> FALSE, b |-> <<>>]

\* the IPv4 form of netip.ParseAddr: [ok, b], b the four bytes
ParseIPv4(s) == ParseIPv4Fields(Split(s, "."))

\* one group of an IPv6 address: one to four hexadecimal digits
IPv6GroupOk(g) == Len(g) \in 1..4 /\ ParseUint(g, 16).ok

\* the two bytes of each 16 bit field of the sequence fields
FieldBytes(fields) ==
    [i \in 1..(2 * Len(fields)) |->
        IF i % 2 = 1 THEN fields[(i + 1) \div 2] \div 256
        ELSE fields[i \div 2] % 256]

\* where the "::" of an IPv6 address is, from the pieces g between its
\* colons and the positions of the empty ones: [kind, gap], gap the
\* position of the first empty piece
IPv6Shape(g, empties) ==
    IF empties = {} THEN [kind |-> "full", gap |-> Len(g) + 1]
    ELSE IF Len(g) = 3 /\ empties = {1, 2, 3} THEN [kind |-> "any", gap |-> 1]
    ELSE IF Len(g) >= 3 /\ empties = {1, 2} THEN [kind |-> "lead", gap |-> 1]
    ELSE IF Len(g) >= 3 /\ empties = {Len(g) - 1, Len(g)}
         THEN [kind |-> "trail", gap |-> Len(g) - 1]
    ELSE IF Cardinality(empties) = 1 /\ empties \cap {1, Len(g)} = {}
         THEN [kind |-> "mid", gap |-> SetMin(empties)]
    ELSE [kind |-> "bad", gap |-> 0]

\* the 16 bit fields of an IPv6 address: the first left hexadecimal groups,
\* the zero fields that "::" stands for, the other groups
IPv6Fields(hexes, left, zeros) ==
    [i \in 1..(Len(hexes) + zeros) |->
        IF i <= left THEN ParseUint(hexes[i], 16).val
        ELSE IF i <= left + zeros THEN 0
        ELSE ParseUint(hexes[i - zeros], 16).val]

\* the address of the hexadecimal groups hexes and the dotted quad v4
\* behind them; "::" stands for at least one zero field
IPv6FromGroups(shape, hexes, v4, count) ==
    IF /\ shape.kind /= "bad"
       /\ \A i \in 1..Len(hexes) : IPv6GroupOk(hexes[i])
       /\ v4.ok
       /\ IF shape.kind = "full" THEN count = 8 ELSE count <= 7
       THEN [ok |-> TRUE,
             b |-> FieldBytes(IPv6Fields(hexes,
                                         IF shape.gap - 1 < Len(hexes)
                                            THEN shape.gap - 1 ELSE Len(hexes),
                                         8 - count)) \o v4.b]
       ELSE [ok |-> FALSE, b |-> <<>>]

\* the address of the groups of an IPv6 address, the last of which may be
\* a dotted quad that counts as two fields
IPv6FromShape(shape, groups, quad) ==
    IF quad
       THEN IPv6FromGroups(shape, SubSeq(groups, 1, Len(groups) - 1),
                           ParseIPv4(groups[Len(groups)]), Len(groups) + 1)
       ELSE IPv6FromGroups(shape, groups, [ok |-> TRUE, b |-> <<>>], Len(groups))

\* the address of the pieces between the colons of an IPv6 address
IPv6FromPieces(shape, groups) ==
    IPv6FromShape(shape, groups,
                  /\ groups /= <<>>
                  /\ shape.kind \in {"full", "lead", "mid"}
                  /\ IndexOf(".", groups[Len(groups)]) > 0)

\* the IPv6 form of netip.ParseAddr without zone: [ok, b], b the 16 bytes
ParseIPv6Pieces(g) ==
    IPv6FromPieces(IPv6Shape(g, {i \in 1..Len(g) : g[i] = <<>>}),
                   SelectSeq(g, LAMBDA x : x /= <<>>))

ParseIPv6(s) == ParseIPv6Pieces(Split(s, ":"))

\* netip.ParseAddr as net.ParseIP and net.ParseCIDR use it: the first of
\* '.' and ':' in s decides the form, an address with a zone is refused
ParseAddr(s) ==
    IF IndexOf("%", s) > 0 THEN [ok |-> FALSE, b |-> <<>>]
    ELSE IF IndexOf(".", s) > 0 /\ (IndexOf(":", s) = 0 \/ IndexOf(".", s) < IndexOf(":", s))
         THEN ParseIPv4(s)
    ELSE IF IndexOf(":", s) > 0 THEN ParseIPv6(s)
    ELSE [ok |-> FALSE, b |-> <<>>]

v4InV6Prefix == <<0, 0, 0, 0, 0, 0, 0, 0, 0, 0, 255, 255>>

\* netip.Addr.As16: the 16 byte form of the parsed address a, nil for none
As16(a) ==
    IF ~a.ok THEN <<>>
    ELSE IF Len(a.b) = 4 THEN v4InV6Prefix \o a.b
    ELSE a.b

\* net.ParseIP: the 16 byte form of the address, nil when s is none
ParseIP(s) == As16(ParseAddr(s))

\* IP.To4
To4(ip) ==
    IF Len(ip) = 4 THEN ip
    ELSE IF Len(ip) = 16 /\ SubSeq(ip, 1, 12) = v4InV6Prefix
         THEN SubSeq(ip, 13, 16)
    ELSE <<>>

\* 2 to the power n
RECURSIVE Pow2(_)
Pow2(n) == IF n = 0 THEN 1 ELSE 2 * Pow2(n - 1)

\* net.CIDRMask(ones, bits)
CIDRMask(ones, bits) ==
    [i \in 1..(bits \div 8) |->
        IF ones >= 8 * i THEN 255
        ELSE IF ones <= 8 * (i - 1) THEN 0
        ELSE 256 - Pow2(8 * i - ones)]

\* net.ParseCIDR(s): [ok, mask]; the prefix length is a decimal numeral
\* of 0 up to the bit length of the address
ParseCIDRParts(addr, n) ==
    IF ~addr.ok \/ ~n.ok \/ n.val > 8 * Len(addr.b)
       THEN [ok |-> FALSE, mask |-> <<>>]
       ELSE [ok |-> TRUE, mask |-> CIDRMask(n.val, 8 * Len(addr.b))]

ParseCIDRAt(s, i) ==
    IF i = 0 THEN [ok |-> FALSE, mask |-> <<>>]
    ELSE ParseCIDRParts(ParseAddr(SubSeq(s, 1, i - 1)),
                        ParseUint(SubSeq(s, i + 1, Len(s)), 10))

ParseCIDR(s) == ParseCIDRAt(s, IndexOf("/", s))

\* the constant stringYes, which the sources use and do not define
stringYes == <<"Y", "e", "s">>

\* ParseIPv4Mask, which the sources use and do not define: the mask of a
\* netmask written as a dotted quad, nil for any other text
ParseIPv4Mask(s) == IF ParseIPv4(s).ok THEN ParseIPv4(s).b ELSE <<>>

\* the DHCP{} of Go; the record is [NetworkName, IPv4, LowerIP, UpperIP, Enabled]
ZeroDHCP ==
    [NetworkName |-> <<>>, IPv4 |-> [IP |-> <<>>, Mask |-> <<>>],
     LowerIP |-> <<>>, UpperIP |-> <<>>, Enabled |-> FALSE]

\* a mutant of DHCPsLine: the record is stored when the blank line after it
\* arrives, as NATNets does
DHCPsLineStoreOnBlank(st, line) ==
    IF line = <<>>
       THEN [st EXCEPT !.m = MapPut(@, st.heap[st.dhcp].NetworkName, st.dhcp),
                       !.heap = Append(@, ZeroDHCP),
                       !.dhcp = Len(st.heap) + 1]
    ELSE LET res == reColonLine(line)
             key == ToLower(res[1])
             val == res[2]
         IN  IF res = <<>> THEN st ELSE
             CASE key = <<"n", "e", "t", "w", "o", "r", "k", "n", "a", "m", "e">> ->
                      [st EXCEPT !.heap[st.dhcp].NetworkName = val]
               [] key \in {<<"i", "p">>, <<"d", "h", "c", "p", "d", " ", "i", "p">>} ->
                      [st EXCEPT !.heap[st.dhcp].IPv4.IP = To4(ParseIP(val))]
               [] key = <<"u", "p", "p", "e", "r", "i", "p", "a", "d", "d", "r", "e", "s", "s">> ->
                      [st EXCEPT !.heap[st.dhcp].UpperIP = To4(ParseIP(val))]
               [] key = <<"l", "o", "w", "e", "r", "i", "p", "a", "d", "d", "r", "e", "s", "s">> ->
                      [st EXCEPT !.heap[st.dhcp].LowerIP = To4(ParseIP(val))]
               [] key = <<"n", "e", "t", "w", "o", "r", "k", "m", "a", "s", "k">> ->
                      [st EXCEPT !.heap[st.dhcp].IPv4.Mask = ParseIPv4Mask(val)]
               [] key = <<"e", "n", "a", "b", "l", "e", "d">> ->
                      [st EXCEPT !.heap[st.dhcp].Enabled = (val = stringYes)]
               [] OTHER -> st

\* the body of the scanner loop of DHCPs on one line.  st is [status,
\* heap, m, dhcp]: heap holds the DHCP values allocated so far, m maps a
\* name to the position in heap its pointer refers to, dhcp is the position
\* the variable dhcp refers to.
DHCPsLine(st, line) ==
    IF line = <<>>
       THEN [st EXCEPT !.heap = Append(@, ZeroDHCP), !.dhcp = Len(st.heap) + 1]
    ELSE LET res == reColonLine(line)
             key == ToLower(res[1])
             val == res[2]
         IN  IF res = <<>> THEN st ELSE
             CASE key = <<"n", "e", "t", "w", "o", "r", "k", "n", "a", "m", "e">> ->
                      IF val \in DOMAIN st.m
                         THEN [st EXCEPT !.status = "error"]
                         ELSE [st EXCEPT !.heap[st.dhcp].NetworkName = val,
                                         !.m = MapPut(@, val, st.dhcp)]
               [] key \in {<<"i", "p">>, <<"d", "h", "c", "p", "d", " ", "i", "p">>} ->
                      [st EXCEPT !.heap[st.dhcp].IPv4.IP = To4(ParseIP(val))]
               [] key = <<"u", "p", "p", "e", "r", "i", "p", "a", "d", "d", "r", "e", "s", "s">> ->
                      [st EXCEPT !.heap[st.dhcp].UpperIP = To4(ParseIP(val))]
               [] key = <<"l", "o", "w", "e", "r", "i", "p", "a", "d", "d", "r", "e", "s", "s">> ->
                      [st EXCEPT !.heap[st.dhcp].LowerIP = To4(ParseIP(val))]
               [] key = <<"n", "e", "t", "w", "o", "r", "k", "m", "a", "s", "k">> ->
                      [st EXCEPT !.heap[st.dhcp].IPv4.Mask = ParseIPv4Mask(val)]
               [] key = <<"e", "n", "a", "b", "l", "e", "d">> ->
                      [st EXCEPT !.heap[st.dhcp].Enabled = (val = stringYes)]
               [] OTHER -> st

\* the scanner loop of DHCPs from line i on
RECURSIVE DHCPsLoop(_, _, _)
DHCPsLoop(lines, i, st) ==
    IF i > Len(lines) \/ st.status = "error" THEN st
    ELSE DHCPsLoop(lines, i + 1, DHCPsLine(st, lines[i]))

\* DHCPs on the output out of "list dhcpservers": [status, m], m the map
\* from a name to the DHCP its pointer refers to, empty with the error
DHCPs(out) ==
    LET st == DHCPsLoop(ScanLines(out), 1,
                        [status |-> "ok", heap |-> <<ZeroDHCP>>, m |-> <<>>,
                         dhcp |-> 1])
    IN  IF st.status = "error" THEN [status |-> "error", m |-> <<>>]
        ELSE [status |-> "ok",
              m |-> [name \in DOMAIN st.m |-> st.heap[st.m[name]]]]

\* the NATNet{} of Go; the record is [Name, IPv4, IPv6, DHCP, Enabled]
ZeroNATNet ==
    [Name |-> <<>>, IPv4 |-> [IP |-> <<>>, Mask |-> <<>>],
     IPv6 |-> [IP |-> <<>>, Mask |-> <<>>], DHCP |-> FALSE, Enabled |-> FALSE]

\* the end of the cases "Network" and "IPv6 Prefix" of NATNets: the error
\* of net.ParseCIDR is returned, its mask is stored in n.IPv4 or n.IPv6
NATNetsMask(st, cidr, net) ==
    IF ~cidr.ok THEN [st EXCEPT !.status = "error"]
    ELSE [st EXCEPT !.n[net].Mask = cidr.mask]

\* the body of the scanner loop of NATNets on one line.  st is [status,
\* m, n]: m maps a name to a NATNet, n is the NATNet being read.
NATNetsLine(st, line) ==
    IF line = <<>>
       THEN [st EXCEPT !.m = MapPut(@, st.n.Name, st.n), !.n = ZeroNATNet]
    ELSE LET res == reColonLine(line)
             key == res[1]
             val == res[2]
         IN  IF res = <<>> THEN st ELSE
             CASE key \in {<<"N", "a", "m", "e">>,
                           <<"N", "e", "t", "w", "o", "r", "k", "N", "a", "m", "e">>} ->
                      [st EXCEPT !.n.Name = val]
               [] key \in {<<"I", "P">>, <<"G", "a", "t", "e", "w", "a", "y">>} ->
                      [st EXCEPT !.n.IPv4.IP = ParseIP(val)]
               [] key = <<"N", "e", "t", "w", "o", "r", "k">> ->
                      NATNetsMask(st, ParseCIDR(val), "IPv4")
               [] key = <<"I", "P", "v", "6", " ", "P", "r", "e", "f", "i", "x">> ->
                      NATNetsMask(st, ParseCIDR(val), "IPv6")
               [] key = <<"D", "H", "C", "P", " ", "E", "n", "a", "b", "l", "e", "d">> ->
                      [st EXCEPT !.n.DHCP = (val = stringYes)]
               [] key = <<"E", "n", "a", "b", "l", "e", "d">> ->
                      [st EXCEPT !.n.Enabled = (val = stringYes)]
               [] OTHER -> st

\* the scanner loop of NATNets from line i on
RECURSIVE NATNetsLoop(_, _, _)
NATNetsLoop(lines, i, st) ==
    IF i > Len(lines) \/ st.status = "error" THEN st
    ELSE NATNetsLoop(lines, i + 1, NATNetsLine(st, lines[i]))

\* NATNets on the output out of "list natnets": [status, m], m empty with
\* the error
NATNets(out) ==
    LET st == NATNetsLoop(ScanLines(out), 1,
                          [status |-> "ok", m |-> <<>>, n |-> ZeroNATNet])
    IN  IF st.status = "error" THEN [status |-> "error", m |-> <<>>]
        ELSE [status |-> "ok", m |-> st.m]

(***************************************************************************)
(* The inputs of DHCPs: listings of records and blank lines.  A record is  *)
(* given by the DHCP it describes, the set of its fields that the listing  *)
(* shows, and the format of the listing: the spelling of the field names   *)
(* of VirtualBox 5, that of VirtualBox 6 with its other order and its      *)
(* further lines, and an upper case spelling.                              *)
(***************************************************************************)
DHCPFormats ==
    <<
      [ keys |->
            [ name |->
                  <<"N", "e", "t", "w", "o", "r", "k", "N", "a", "m", "e">>,
              ip |->
                  <<"I", "P">>,
              mask |->
                  <<"N", "e", "t", "w", "o", "r", "k", "M", "a", "s", "k">>,
              lower |->
                  <<"l", "o", "w", "e", "r", "I", "P", "A", "d", "d", "r",
                  "e", "s", "s">>,
              upper |->
                  <<"u", "p", "p", "e", "r", "I", "P", "A", "d", "d", "r",
                  "e", "s", "s">>,
              enabled |->
                  <<"E", "n", "a", "b", "l", "e", "d">> ],
        order |-> <<"name", "ip", "mask", "lower", "upper", "enabled">>,
        pad |-> <<" ", " ", " ", " ">>,
        tail |-> <<>> ],
      [ keys |->
            [ name |->
                  <<"N", "e", "t", "w", "o", "r", "k", "N", "a", "m", "e">>,
              ip |->
                  <<"D", "h", "c", "p", "d", " ", "I", "P">>,
              mask |->
                  <<"N", "e", "t", "w", "o", "r", "k", "M", "a", "s", "k">>,
              lower |->
                  <<"L", "o", "w", "e", "r", "I", "P", "A", "d", "d", "r",
                  "e", "s", "s">>,
              upper |->
                  <<"U", "p", "p", "e", "r", "I", "P", "A", "d", "d", "r",
                  "e", "s", "s">>,
              enabled |->
                  <<"E", "n", "a", "b", "l", "e", "d">> ],
        order |-> <<"name", "ip", "lower", "upper", "mask", "enabled">>,
        pad |-> <<" ", " ">>,
        tail |-> <<<<"G", "l", "o", "b", "a", "l", " ", "C", "o", "n", "f",
                   "i", "g", "u", "r", "a", "t", "i", "o", "n", ":">>,
                   <<"G", "r", "o", "u", "p", "s", ":", " ", " ", "N", "o",
                   "n", "e">>>> ],
      [ keys |->
            [ name |->
                  <<"N", "E", "T", "W", "O", "R", "K", "N", "A", "M", "E">>,
              ip |->
                  <<"D", "H", "C", "P", "D", " ", "I", "P">>,
              mask |->
                  <<"N", "E", "T", "W", "O", "R", "K", "M", "A", "S", "K">>,
              lower |->
                  <<"L", "O", "W", "E", "R", "I", "P", "A", "D", "D", "R",
                  "E", "S", "S">>,
              upper |->
                  <<"U", "P", "P", "E", "R", "I", "P", "A", "D", "D", "R",
                  "E", "S", "S">>,
              enabled |->
                  <<"E", "N", "A", "B", "L", "E", "D">> ],
        order |-> <<"name", "ip", "mask", "lower", "upper", "enabled">>,
        pad |-> <<" ">>,
        tail |-> <<>> ] >>

DHCPFields == {"name", "ip", "mask", "lower", "upper", "enabled"}

DHCPValues ==
    << [ dhcp |-> [NetworkName |-> <<"v", "b", "o", "x", "n", "e", "t", "0">>,
                   IPv4 |-> [IP |-> <<192, 168, 56, 100>>,
                             Mask |-> <<255, 255, 255, 0>>],
                   LowerIP |-> <<192, 168, 56, 101>>,
                   UpperIP |-> <<192, 168, 56, 254>>,
                   Enabled |-> FALSE],
         has |-> DHCPFields ],
       [ dhcp |-> [NetworkName |-> <<"v", "b", "o", "x", "n", "e", "t", "5">>,
                   IPv4 |-> [IP |-> <<192, 168, 61, 1>>,
                             Mask |-> <<255, 255, 255, 0>>],
                   LowerIP |-> <<192, 168, 61, 50>>,
                   UpperIP |-> <<192, 168, 61, 200>>,
                   Enabled |-> TRUE],
         has |-> DHCPFields ],
       [ dhcp |-> [ZeroDHCP EXCEPT !.NetworkName = <<"i", "n", "t", "n", "e", "t">>,
                                   !.Enabled = TRUE],
         has |-> {"name", "enabled"} ],
       [ dhcp |-> [ZeroDHCP EXCEPT !.IPv4.IP = <<10, 0, 2, 3>>,
                                   !.Enabled = TRUE],
         has |-> {"ip", "enabled"} ] >>

\* an item of a listing: a blank line, or the record of DHCPValues[val]
\* written in DHCPFormats[fmt]
BlankItem == [kind |-> "blank", fmt |-> 0, val |-> 0]

DHCPItems ==
    {BlankItem}
        \cup {[kind |-> "record", fmt |-> f, val |-> v] : f \in 1..3, v \in 1..2}
        \cup {[kind |-> "record", fmt |-> 1, val |-> 3],
              [kind |-> "record", fmt |-> 2, val |-> 4]}

\* a.b.c.d
FormatIPv4(b) ==
    FormatDec(b[1]) \o <<".">> \o FormatDec(b[2]) \o <<".">>
        \o FormatDec(b[3]) \o <<".">> \o FormatDec(b[4])

YesNo(b) == IF b THEN stringYes ELSE <<"N", "o">>

\* the text of a field of a DHCP
DHCPFieldText(dhcp, field) ==
    CASE field = "name" -> dhcp.NetworkName
      [] field = "ip" -> FormatIPv4(dhcp.IPv4.IP)
      [] field = "mask" -> FormatIPv4(dhcp.IPv4.Mask)
      [] field = "lower" -> FormatIPv4(dhcp.LowerIP)
      [] field = "upper" -> FormatIPv4(dhcp.UpperIP)
      [] field = "enabled" -> YesNo(dhcp.Enabled)

\* the lines of an item
DHCPItemLines(item) ==
    IF item.kind = "blank" THEN << <<>> >>
    ELSE LET f == DHCPFormats[item.fmt]
             v == DHCPValues[item.val]
             shown == SelectSeq(f.order, LAMBDA x : x \in v.has)
         IN  [i \in 1..Len(shown) |->
                 f.keys[shown[i]] \o <<":">> \o f.pad
                     \o DHCPFieldText(v.dhcp, shown[i])]
                 \o f.tail

\* the lines of a sequence of line sequences, each ended by a newline
RECURSIVE JoinLines(_)
JoinLines(lines) ==
    IF lines = <<>> THEN <<>>
    ELSE Head(lines) \o <<sNewline>> \o JoinLines(Tail(lines))

\* the text of a listing of DHCP items
RECURSIVE DHCPListingText(_)
DHCPListingText(items) ==
    IF items = <<>> THEN <<>>
    ELSE JoinLines(DHCPItemLines(Head(items))) \o DHCPListingText(Tail(items))

\* the output of the tool: the text, without its last newline when chop
ToolOutput(text, chop) ==
    IF chop /\ text /= <<>> THEN SubSeq(text, 1, Len(text) - 1) ELSE text

(***************************************************************************)
(* The operations on the DHCP listing parser.                              *)
(***************************************************************************)
\* the tool lists one more record or blank line
AppendDHCPItem(item) ==
    /\ dhcpRes.status = "none"
    /\ Len(dhcpListing) < MaxListingItems
    /\ dhcpListing' = Append(dhcpListing, item)
    /\ UNCHANGED <<dhcpOut, dhcpRes>>
    /\ UNCHANGED otherThanDHCP

\* DHCPs() with the tool answering the listing, with or without the
\* newline after its last line
CallDHCPs(chop) ==
    /\ dhcpRes.status = "none"
    /\ dhcpOut' = ToolOutput(DHCPListingText(dhcpListing), chop)
    /\ dhcpRes' = DHCPs(dhcpOut')
    /\ UNCHANGED dhcpListing
    /\ UNCHANGED otherThanDHCP

(***************************************************************************)
(* The inputs of NATNets: listings of records and blank lines.  A record   *)
(* is given by the name, the gateway address, the network and the IPv6     *)
(* prefix in CIDR form and the two flags of a NAT network, the set of its  *)
(* fields that the listing shows, and the format of the listing: that of   *)
(* VirtualBox 6 or that of VirtualBox 7.0 (src/natnet.go, lines 21 to 43). *)
(***************************************************************************)
NATNetFormats ==
    <<
      [ keys |->
            [ name |->
                  <<"N", "e", "t", "w", "o", "r", "k", "N", "a", "m", "e">>,
              ip |->
                  <<"I", "P">>,
              network |->
                  <<"N", "e", "t", "w", "o", "r", "k">>,
              v6on |->
                  <<"I", "P", "v", "6", " ", "E", "n", "a", "b", "l", "e",
                  "d">>,
              v6prefix |->
                  <<"I", "P", "v", "6", " ", "P", "r", "e", "f", "i", "x">>,
              dhcp |->
                  <<"D", "H", "C", "P", " ", "E", "n", "a", "b", "l", "e",
                  "d">>,
              enabled |->
                  <<"E", "n", "a", "b", "l", "e", "d">> ],
        order |->
            <<"name", "ip", "network", "v6on", "v6prefix", "dhcp", "enabled">>,
        pad |-> <<" ", " ", " ", " ">>,
        tail |-> <<<<"l", "o", "o", "p", "b", "a", "c", "k", " ", "m", "a",
                   "p", "p", "i", "n", "g", "s", " ", "(", "i", "p", "v",
                   "4", ")">>,
                   <<" ", " ", " ", " ", " ", " ", " ", " ", "1", "2", "7",
                   ".", "0", ".", "0", ".", "1", "=", "2">>>> ],
      [ keys |->
            [ name |->
                  <<"N", "a", "m", "e">>,
              ip |->
                  <<"G", "a", "t", "e", "w", "a", "y">>,
              network |->
                  <<"N", "e", "t", "w", "o", "r", "k">>,
              v6on |->
                  <<"I", "P", "v", "6">>,
              v6prefix |->
                  <<"I", "P", "v", "6", " ", "P", "r", "e", "f", "i", "x">>,
              dhcp |->
                  <<"D", "H", "C", "P", " ", "S", "e", "r", "v", "e", "r">>,
              enabled |->
                  <<"E", "n", "a", "b", "l", "e", "d">> ],
        order |->
            <<"name", "enabled", "network", "ip", "dhcp", "v6on", "v6prefix">>,
        pad |-> <<" ", " ">>,
        tail |-> <<<<"I", "P", "v", "6", " ", "D", "e", "f", "a", "u", "l",
                   "t", ":", " ", "N", "o">>,
                   <<"l", "o", "o", "p", "b", "a", "c", "k", " ", "m", "a",
                   "p", "p", "i", "n", "g", "s", " ", "(", "i", "p", "v",
                   "4", ")">>,
                   <<" ", " ", " ", " ", " ", " ", " ", " ", "1", "2", "7",
                   ".", "0", ".", "0", ".", "1", "=", "2">>>> ] >>

NATNetFields == {"name", "ip", "network", "v6on", "v6prefix", "dhcp", "enabled"}

NATNetValues ==
    << [ name |-> <<"s", "a", "y", "a", "n", "a", "t">>,
         ip |-> <<10, 12, 0, 1>>,
         network |-> <<"1", "0", ".", "1", "2", ".", "0", ".", "0", "/", "2", "4">>,
         v6prefix |->
             <<"f", "d", "1", "7", ":", "6", "2", "5", "c", ":", "f", "0",
             "3", "7", ":", "2", ":", ":", "/", "6", "4">>,
         dhcp |-> TRUE, enabled |-> TRUE,
         has |-> NATNetFields ],
       [ name |-> <<"n", "a", "t", "n", "e", "t", "2">>,
         ip |-> <<192, 168, 15, 1>>,
         network |-> <<"1", "9", "2", ".", "1", "6", "8", ".", "1", "5", ".", "0",
             "/", "2", "8">>,
         v6prefix |-> <<":", ":", "/", "0">>,
         dhcp |-> FALSE, enabled |-> FALSE,
         has |-> NATNetFields \ {"v6on", "v6prefix"} ],
       [ name |-> <<"b", "a", "d", "n", "e", "t">>,
         ip |-> <<10, 0, 2, 1>>,
         network |-> <<"1", "0", ".", "0", ".", "2", ".", "0">>,
         v6prefix |-> <<>>,
         dhcp |-> TRUE, enabled |-> TRUE,
         has |-> {"name", "network", "enabled"} ],
       [ name |-> <<>>,
         ip |-> <<10, 0, 3, 1>>,
         network |-> <<"1", "0", ".", "0", ".", "3", ".", "0", "/", "2", "4">>,
         v6prefix |-> <<>>,
         dhcp |-> TRUE, enabled |-> TRUE,
         has |-> {"ip", "network", "enabled"} ] >>

\* an item of a listing: a blank line, or the record of NATNetValues[val]
\* written in NATNetFormats[fmt]
NATNetItems ==
    {BlankItem}
        \cup {[kind |-> "record", fmt |-> f, val |-> v] : f \in 1..2, v \in 1..2}
        \cup {[kind |-> "record", fmt |-> 1, val |-> 3],
              [kind |-> "record", fmt |-> 2, val |-> 4]}

\* the text of a field of a NAT network
NATNetFieldText(v, field) ==
    CASE field = "name" -> v.name
      [] field = "ip" -> FormatIPv4(v.ip)
      [] field = "network" -> v.network
      [] field = "v6on" -> YesNo(TRUE)
      [] field = "v6prefix" -> v.v6prefix
      [] field = "dhcp" -> YesNo(v.dhcp)
      [] field = "enabled" -> YesNo(v.enabled)

\* the lines of an item
NATNetItemLines(item) ==
    IF item.kind = "blank" THEN << <<>> >>
    ELSE LET f == NATNetFormats[item.fmt]
             v == NATNetValues[item.val]
             shown == SelectSeq(f.order, LAMBDA x : x \in v.has)
         IN  [i \in 1..Len(shown) |->
                 f.keys[shown[i]] \o <<":">> \o f.pad
                     \o NATNetFieldText(v, shown[i])]
                 \o f.tail

\* the text of a listing of NAT network items
RECURSIVE NATNetListingText(_)
NATNetListingText(items) ==
    IF items = <<>> THEN <<>>
    ELSE JoinLines(NATNetItemLines(Head(items)))
             \o NATNetListingText(Tail(items))

(***************************************************************************)
(* The operations on the NAT network listing parser.                       *)
(***************************************************************************)
\* the tool lists one more record or blank line
AppendNATNetItem(item) ==
    /\ natRes.status = "none"
    /\ Len(natListing) < MaxListingItems
    /\ natListing' = Append(natListing, item)
    /\ UNCHANGED <<natOut, natRes>>
    /\ UNCHANGED otherThanNATNets

\* NATNets() with the tool answering the listing, with or without the
\* newline after its last line
CallNATNets(chop) ==
    /\ natRes.status = "none"
    /\ natOut' = ToolOutput(NATNetListingText(natListing), chop)
    /\ natRes' = NATNets(natOut')
    /\ UNCHANGED natListing
    /\ UNCHANGED otherThanNATNets

(***************************************************************************)
(* vminfoAsPropMap (src/unnamed/part_002): the machine readable VM info    *)
(* as a map.                                                               *)
(***************************************************************************)
sQuote == "\""

\* reVMInfoLine.FindStringSubmatch(line) for (?:"(.+)"|(.+))=(?:"(.*)"|(.*)):
\* <<>> is nil, otherwise <<res[1], res[2], res[3], res[4]>>.  A match
\* starts at the first character and needs a "=" after it.  The quoted key
\* is tried first, each greedy group ends as late as it can: the key ends
\* before the last "=" (for a quoted key, the last "=" that follows a
\* quote), the quoted value ends before the last quote.
reVMInfoLineKey(line, eqs) ==
    IF line[1] = sQuote /\ \E e \in eqs : e >= 4 /\ line[e - 1] = sQuote
       THEN [eq |-> SetMax({e \in eqs : e >= 4 /\ line[e - 1] = sQuote}),
             quoted |-> TRUE]
       ELSE [eq |-> SetMax(eqs), quoted |-> FALSE]

reVMInfoLineValue(line, p) ==
    IF p <= Len(line) /\ line[p] = sQuote
          /\ \E q \in (p + 1)..Len(line) : line[q] = sQuote
       THEN <<SubSeq(line, p + 1,
                     SetMax({q \in (p + 1)..Len(line) : line[q] = sQuote}) - 1),
              <<>>>>
       ELSE <<<<>>, SubSeq(line, p, Len(line))>>

reVMInfoLineGroups(line, key) ==
    (IF key.quoted THEN <<SubSeq(line, 2, key.eq - 2), <<>>>>
                   ELSE <<<<>>, SubSeq(line, 1, key.eq - 1)>>)
        \o reVMInfoLineValue(line, key.eq + 1)

reVMInfoLine(line) ==
    IF \A e \in 2..Len(line) : line[e] # "=" THEN <<>>
    ELSE reVMInfoLineGroups(
             line, reVMInfoLineKey(line, {e \in 2..Len(line) : line[e] = "="}))

\* the body of the loop of vminfoAsPropMap for the submatches res
vminfoAsPropMapPut(propMap, res) ==
    IF res = <<>> THEN propMap
    ELSE MapPut(propMap,
                IF res[1] = <<>> THEN res[2] ELSE res[1],
                IF res[3] = <<>> THEN res[4] ELSE res[3])

RECURSIVE vminfoAsPropMapLoop(_, _, _)
vminfoAsPropMapLoop(lines, i, propMap) ==
    IF i > Len(lines) THEN propMap
    ELSE vminfoAsPropMapLoop(lines, i + 1,
                             vminfoAsPropMapPut(propMap, reVMInfoLine(lines[i])))

vminfoAsPropMap(vmInfo) == vminfoAsPropMapLoop(ScanLines(vmInfo), 1, <<>>)

(***************************************************************************)
(* The inputs and the operations of vminfoAsPropMap: the lines of a VM     *)
(* info, each a key and a value, either of them quoted or bare, or a line  *)
(* of another shape.                                                       *)
(***************************************************************************)
sCpus == <<"c", "p", "u", "s">>

sName == <<"n", "a", "m", "e">>

KVLine(key, val, qk, qv) ==
    [kind |-> "kv", key |-> key, val |-> val, qk |-> qk, qv |-> qv]

\* cpus=2 in the four ways of quoting, another value of cpus, a name
\* that holds a "=", an empty name, an empty line and a line without "="
VMInfoLines ==
    {KVLine(sCpus, <<"2">>, qk, qv) : qk, qv \in BOOLEAN}
        \cup {KVLine(sCpus, <<"4">>, FALSE, TRUE),
              KVLine(sName, <<"a", "=", "b">>, FALSE, TRUE),
              KVLine(sName, <<>>, FALSE, TRUE),
              [kind |-> "other", text |-> <<>>],
              [kind |-> "other", text |-> <<"n", "o", "v", "a", "l", "u", "e">>]}

Quoted(s, q) == IF q THEN <<sQuote>> \o s \o <<sQuote>> ELSE s

VMInfoLineText(l) ==
    IF l.kind = "kv" THEN Quoted(l.key, l.qk) \o <<"=">> \o Quoted(l.val, l.qv)
    ELSE l.text

VMInfoText(lines) == JoinLines([i \in 1..Len(lines) |-> VMInfoLineText(lines[i])])

\* the tool shows one more line
AppendVMInfoLine(l) ==
    /\ ~vmInfoRes.called
    /\ Len(vmInfoLines) < MaxVMInfoLines
    /\ vmInfoLines' = Append(vmInfoLines, l)
    /\ UNCHANGED vmInfoRes
    /\ UNCHANGED otherThanVMInfo

\* vminfoAsPropMap on the text of the lines, with or without the newline
\* after its last line
CallVminfoAsPropMap(chop) ==
    /\ ~vmInfoRes.called
    /\ vmInfoRes' =
           [called |-> TRUE,
            m |-> vminfoAsPropMap(ToolOutput(VMInfoText(vmInfoLines), chop))]
    /\ UNCHANGED vmInfoLines
    /\ UNCHANGED otherThanVMInfo

(***************************************************************************)
(* GetMachine and Machine.Refresh (src/unnamed/part_002).  A Machine is    *)
(* [Name, UUID, State, CPUs, Memory, VRAM, CfgFile, BaseFolder, OSType,    *)
(* Flag, BootOrder, NICs, UARTs, StorageControllers], a NIC is [Network,   *)
(* Hardware, MacAddr, HostInterface, NetworkName].  A result is            *)
(* [status, err, m]: m is <<>> for the nil *Machine and <<machine>>        *)
(* otherwise, err names what the error is about, status "panic" stands for *)
(* a call that does not return.                                            *)
(***************************************************************************)
\* the MachineState constants
MachineState ==
    [ Poweroff |-> <<"p", "o", "w", "e", "r", "o", "f", "f">>,
      Running |-> <<"r", "u", "n", "n", "i", "n", "g">>,
      Paused |-> <<"p", "a", "u", "s", "e", "d">>,
      Saved |-> <<"s", "a", "v", "e", "d">>,
      Aborted |-> <<"a", "b", "o", "r", "t", "e", "d">> ]

MachineStates ==
    {MachineState.Poweroff, MachineState.Running, MachineState.Paused,
     MachineState.Saved, MachineState.Aborted}

\* New()
New ==
    [Name |-> <<>>, UUID |-> <<>>, State |-> <<>>, CPUs |-> 0, Memory |-> 0,
     VRAM |-> 0, CfgFile |-> <<>>, BaseFolder |-> <<>>, OSType |-> <<>>,
     Flag |-> 0, BootOrder |-> <<>>, NICs |-> <<>>, UARTs |-> NewUARTsAllOff,
     StorageControllers |-> <<>>]

\* the NICNetwork constants the NIC decoding compares with
NICNet ==
    [ Hostonly |-> <<"h", "o", "s", "t", "o", "n", "l", "y">>, Bridged |-> <<"b", "r", "i", "d", "g", "e", "d">>, NAT |-> <<"n", "a", "t">>, NATNetwork |-> <<"n", "a", "t", "n", "e", "t", "w", "o", "r", "k">> ]

\* filepath.Dir on a cleaned slash separated path
Dir(path) ==
    LET slashes == {i \in 1..Len(path) : path[i] = "/"}
    IN  IF slashes = {} THEN <<".">>
        ELSE IF SetMax(slashes) = 1 THEN <<"/">>
        ELSE SubSeq(path, 1, SetMax(slashes) - 1)

\* fmt.Sprintf(name + "%d", i)
IndexedKey(name, i) == name \o FormatDec(i)

\* the NIC of index i once nictype<i> and macaddress<i> are known to be there
GetMachineNIC(propMap, i, nicType) ==
    [Network |-> nicType,
     Hardware |-> MapGet(propMap, IndexedKey(<<"n", "i", "c", "t", "y", "p", "e">>, i)),
     MacAddr |-> MapGet(propMap, IndexedKey(<<"m", "a", "c", "a", "d", "d", "r", "e", "s", "s">>, i)),
     HostInterface |->
         IF nicType = NICNet.Hostonly
            THEN MapGet(propMap, IndexedKey(<<"h", "o", "s", "t", "o", "n", "l", "y", "a", "d", "a", "p", "t", "e", "r">>, i))
         ELSE IF nicType = NICNet.Bridged
            THEN MapGet(propMap, IndexedKey(<<"b", "r", "i", "d", "g", "e", "a", "d", "a", "p", "t", "e", "r">>, i))
         ELSE <<>>,
     NetworkName |->
         IF nicType = NICNet.NAT
            THEN MapGet(propMap, IndexedKey(<<"n", "a", "t", "n", "e", "t">>, i))
         ELSE IF nicType = NICNet.NATNetwork
            THEN MapGet(propMap, IndexedKey(<<"n", "a", "t", "-", "n", "e", "t", "w", "o", "r", "k">>, i))
         ELSE <<>>]

\* a NIC loop that skips an absent or "none" index and goes on
RECURSIVE GetMachineNICsSkipping(_, _, _)
GetMachineNICsSkipping(propMap, i, nics) ==
    IF i > 4 THEN [err |-> <<>>, nics |-> nics]
    ELSE IF IndexedKey(<<"n", "i", "c">>, i) \notin DOMAIN propMap
            \/ propMap[IndexedKey(<<"n", "i", "c">>, i)] = sNone
       THEN GetMachineNICsSkipping(propMap, i + 1, nics)
    ELSE IF MapGet(propMap, IndexedKey(<<"n", "i", "c", "t", "y", "p", "e">>, i)) = <<>>
       THEN [err |-> IndexedKey(<<"n", "i", "c", "t", "y", "p", "e">>, i), nics |-> <<>>]
    ELSE IF MapGet(propMap, IndexedKey(<<"m", "a", "c", "a", "d", "d", "r", "e", "s", "s">>, i)) = <<>>
       THEN [err |-> IndexedKey(<<"m", "a", "c", "a", "d", "d", "r", "e", "s", "s">>, i), nics |-> <<>>]
    ELSE GetMachineNICsSkipping(propMap, i + 1,
             Append(nics, GetMachineNIC(propMap, i, propMap[IndexedKey(<<"n", "i", "c">>, i)])))

\* the NIC loop of GetMachine from index i on
RECURSIVE GetMachineNICs(_, _, _)
GetMachineNICs(propMap, i, nics) ==
    IF i > 4 THEN [err |-> <<>>, nics |-> nics]
    ELSE IF IndexedKey(<<"n", "i", "c">>, i) \notin DOMAIN propMap
            \/ propMap[IndexedKey(<<"n", "i", "c">>, i)] = sNone
       THEN [err |-> <<>>, nics |-> nics]
    ELSE IF MapGet(propMap, IndexedKey(<<"n", "i", "c", "t", "y", "p", "e">>, i)) = <<>>
       THEN [err |-> IndexedKey(<<"n", "i", "c", "t", "y", "p", "e">>, i), nics |-> <<>>]
    ELSE IF MapGet(propMap, IndexedKey(<<"m", "a", "c", "a", "d", "d", "r", "e", "s", "s">>, i)) = <<>>
       THEN [err |-> IndexedKey(<<"m", "a", "c", "a", "d", "d", "r", "e", "s", "s">>, i), nics |-> <<>>]
    ELSE GetMachineNICs(propMap, i + 1,
             Append(nics, GetMachineNIC(propMap, i, propMap[IndexedKey(<<"n", "i", "c">>, i)])))

\* GetMachine after the reading of the property map: the returns in the
\* order of the code
GetMachineAssemble(propMap, memory, cpus, vram, nics, uarts, scs) ==
    IF ~memory.ok THEN [status |-> "error", err |-> <<"m", "e", "m", "o", "r", "y">>, m |-> <<>>]
    ELSE IF ~cpus.ok THEN [status |-> "error", err |-> <<"c", "p", "u", "s">>, m |-> <<>>]
    ELSE IF ~vram.ok THEN [status |-> "error", err |-> <<"v", "r", "a", "m">>, m |-> <<>>]
    ELSE IF nics.err # <<>> THEN [status |-> "error", err |-> nics.err, m |-> <<>>]
    ELSE IF uarts.status # "ok"
       THEN [status |-> uarts.status, err |-> <<"u", "a", "r", "t", "s">>, m |-> <<>>]
    ELSE IF scs.status # "ok"
       THEN [status |-> scs.status, err |-> <<"s", "t", "o", "r", "a", "g", "e">>, m |-> <<>>]
    ELSE [status |-> "ok", err |-> <<>>,
          m |-> <<[New EXCEPT
                     !.Name = MapGet(propMap, <<"n", "a", "m", "e">>),
                     !.UUID = MapGet(propMap, <<"U", "U", "I", "D">>),
                     !.State = MapGet(propMap, <<"V", "M", "S", "t", "a", "t", "e">>),
                     !.Memory = memory.val,
                     !.CPUs = cpus.val,
                     !.VRAM = vram.val,
                     !.CfgFile = MapGet(propMap, <<"C", "f", "g", "F", "i", "l", "e">>),
                     !.BaseFolder = Dir(MapGet(propMap, <<"C", "f", "g", "F", "i", "l", "e">>)),
                     !.NICs = nics.nics,
                     !.UARTs = uarts.uarts,
                     !.StorageControllers = scs.ctrls]>>]

GetMachineFromProps(propMap) ==
    GetMachineAssemble(propMap,
                       ParseUint(MapGet(propMap, <<"m", "e", "m", "o", "r", "y">>), 10),
                       ParseUint(MapGet(propMap, <<"c", "p", "u", "s">>), 10),
                       ParseUint(MapGet(propMap, <<"v", "r", "a", "m">>), 10),
                       GetMachineNICs(propMap, 1, <<>>),
                       NewUARTs(propMap),
                       NewStorageControllersFromProps(propMap))

\* GetMachine on the output stdout of showvminfo --machinereadable
GetMachine(stdout) == GetMachineFromProps(vminfoAsPropMap(stdout))

\* Machine.Refresh on the receiver m: [status, m], m the receiver afterwards
Refresh(m, res) ==
    IF res.status # "ok" THEN [status |-> res.status, m |-> m]
    ELSE [status |-> "ok", m |-> res.m[1]]

(***************************************************************************)
(* The inputs and the operations of GetMachine: the configuration of the   *)
(* machine "vm" as VirtualBox holds it, shown by showvminfo as lines of    *)
(* key=value.  The configuration is [basics, nics, serial, storage], each  *)
(* part one of a few variants, nics a variant for each of the indices 1..5,*)
(* state the MachineState shown.                                           *)
(***************************************************************************)
\* the lines of name, UUID, state, memory, vram, cpus and configuration
\* file: "ok", or "nomemory", "badcpus", "novram"
BasicsLines(v, state) ==
    <<KVLine(<<"n", "a", "m", "e">>, <<"v", "m">>, FALSE, TRUE),
      KVLine(<<"U", "U", "I", "D">>, <<"u", "1">>, FALSE, TRUE),
      KVLine(<<"V", "M", "S", "t", "a", "t", "e">>, state, FALSE, TRUE),
      KVLine(<<"C", "f", "g", "F", "i", "l", "e">>, <<"/", "v", "/", "v", "m", ".", "v", "b", "o", "x">>, FALSE, TRUE)>>
        \o (IF v = "nomemory" THEN <<>> ELSE <<KVLine(<<"m", "e", "m", "o", "r", "y">>, <<"5", "1", "2">>, FALSE, FALSE)>>)
        \o (IF v = "novram" THEN <<>> ELSE <<KVLine(<<"v", "r", "a", "m">>, <<"1", "6">>, FALSE, FALSE)>>)
        \o (IF v = "badcpus" THEN <<KVLine(<<"c", "p", "u", "s">>, <<"x">>, FALSE, FALSE)>>
                             ELSE <<KVLine(<<"c", "p", "u", "s">>, <<"2">>, FALSE, FALSE)>>)

BasicsVariants == {"ok", "nomemory", "badcpus", "novram"}

\* the lines of the NIC of index i: "absent" (no line), "none", "nat",
\* "hostonly", "notype" (no nictype line), "nomac" (an empty macaddress)
NICLines(i, v) ==
    IF v = "absent" THEN <<>>
    ELSE IF v = "none" THEN <<KVLine(IndexedKey(<<"n", "i", "c">>, i), sNone, FALSE, TRUE)>>
    ELSE <<KVLine(IndexedKey(<<"n", "i", "c">>, i),
                  IF v = "hostonly" THEN NICNet.Hostonly ELSE NICNet.NAT,
                  FALSE, TRUE)>>
          \o (IF v = "notype" THEN <<>>
              ELSE <<KVLine(IndexedKey(<<"n", "i", "c", "t", "y", "p", "e">>, i), <<"v", "i", "r", "t", "i", "o">>,
                            FALSE, TRUE)>>)
          \o <<KVLine(IndexedKey(<<"m", "a", "c", "a", "d", "d", "r", "e", "s", "s">>, i),
                      IF v = "nomac" THEN <<>> ELSE <<"0", "8", "0", "0">> \o FormatDec(i),
                      FALSE, TRUE)>>
          \o (IF v = "hostonly"
                 THEN <<KVLine(IndexedKey(<<"h", "o", "s", "t", "o", "n", "l", "y", "a", "d", "a", "p", "t", "e", "r">>, i),
                               <<"v", "b", "o", "x", "n", "e", "t", "0">>, FALSE, TRUE)>>
                 ELSE <<KVLine(IndexedKey(<<"n", "a", "t", "n", "e", "t">>, i), NICNet.NAT,
                               FALSE, TRUE)>>)

NICVariants == {"none", "nat", "hostonly", "notype", "nomac"}

\* the indices showvminfo may show a nic<i> line for: one more than the
\* four GetMachine reads
NICIndices == 1..5

\* the variants of the NIC of index i: all of them for the first two
\* indices, fewer for the later ones
NICVariantsAt(i) ==
    IF i <= 2 THEN NICVariants
    ELSE IF i = 3 THEN {"none", "nat", "nomac"}
    ELSE IF i = 4 THEN {"none", "nat", "notype"}
    ELSE {"nat", "nomac"}

\* the lines of the serial ports: "ok", "error" (no IRQ), "panic" (an I/O
\* base of one character)
SerialLines(v) ==
    IF v = "error" THEN <<KVLine(<<"u", "a", "r", "t", "1">>, <<"0", "x", "0", "3", "f", "8">>, FALSE, TRUE)>>
    ELSE IF v = "panic" THEN <<KVLine(<<"u", "a", "r", "t", "1">>, <<"3", ",", "4">>, FALSE, TRUE)>>
    ELSE <<KVLine(<<"u", "a", "r", "t", "1">>, <<"0", "x", "0", "3", "f", "8", ",", "4">>, FALSE, TRUE),
           KVLine(<<"u", "a", "r", "t", "m", "o", "d", "e", "1">>, <<"d", "i", "s", "c", "o", "n", "n", "e", "c", "t", "e", "d">>, FALSE, TRUE),
           KVLine(<<"u", "a", "r", "t", "t", "y", "p", "e", "1">>, <<"1", "6", "5", "5", "0", "A">>, FALSE, TRUE),
           KVLine(<<"u", "a", "r", "t", "2">>, <<"o", "f", "f">>, FALSE, TRUE)>>

SerialVariants == {"ok", "error", "panic"}

\* the lines of the storage controllers: "ok", or "badtype"
StorageLines(v) ==
    <<KVLine(<<"s", "t", "o", "r", "a", "g", "e", "c", "o", "n", "t", "r", "o", "l", "l", "e", "r", "n", "a", "m", "e", "0">>, <<"I", "D", "E">>, FALSE, TRUE),
      KVLine(<<"s", "t", "o", "r", "a", "g", "e", "c", "o", "n", "t", "r", "o", "l", "l", "e", "r", "t", "y", "p", "e", "0">>,
             IF v = "badtype" THEN <<"b", "o", "g", "u", "s">> ELSE Ctrl.PIIX4, FALSE, TRUE),
      KVLine(<<"s", "t", "o", "r", "a", "g", "e", "c", "o", "n", "t", "r", "o", "l", "l", "e", "r", "p", "o", "r", "t", "c", "o", "u", "n", "t", "0">>, <<"2">>, FALSE, TRUE),
      KVLine(<<"s", "t", "o", "r", "a", "g", "e", "c", "o", "n", "t", "r", "o", "l", "l", "e", "r", "b", "o", "o", "t", "a", "b", "l", "e", "0">>, <<"o", "n">>, FALSE, TRUE),
      KVLine(<<"I", "D", "E", "-", "0", "-", "0">>, <<"/", "v", "/", "a", ".", "v", "d", "i">>, TRUE, TRUE),
      KVLine(<<"I", "D", "E", "-", "I", "m", "a", "g", "e", "U", "U", "I", "D", "-", "0", "-", "0">>, <<"8", "c">>, TRUE, TRUE)>>

StorageVariants == {"ok", "badtype"}

\* what showvminfo --machinereadable prints for the configuration cfg
ShowVMInfo(cfg) ==
    VMInfoText(BasicsLines(cfg.basics, cfg.state)
                   \o NICLines(1, cfg.nics[1]) \o NICLines(2, cfg.nics[2])
                   \o NICLines(3, cfg.nics[3]) \o NICLines(4, cfg.nics[4])
                   \o NICLines(5, cfg.nics[5])
                   \o SerialLines(cfg.serial) \o StorageLines(cfg.storage))

\* the machine is created powered off, with sound basics, serial ports and
\* storage and without NIC
CreatedVM ==
    [basics |-> "ok", state |-> MachineState.Poweroff,
     nics |-> [i \in NICIndices |-> "absent"], serial |-> "ok", storage |-> "ok"]

\* what runOutErr returns when showvminfo shows the configuration cfg
ToolShows(cfg) == [err |-> "nil", stderr |-> <<>>, stdout |-> ShowVMInfo(cfg)]

Uncalled ==
    /\ getRes.status = "none"
    /\ refreshRes.status = "none"
    /\ caller[1].pc = "idle"

\* VirtualBox changes a part of the configuration; of the basics, the
\* serial ports and the storage at most one part is made unsound
SetBasics(v) ==
    /\ Uncalled
    /\ vmConfig.basics = "ok" /\ vmConfig.serial = "ok" /\ vmConfig.storage = "ok"
    /\ v # "ok"
    /\ vmConfig' = [vmConfig EXCEPT !.basics = v]
    /\ UNCHANGED <<getRes, machine, refreshRes>>
    /\ UNCHANGED otherThanMachine

SetNIC(i, v) ==
    /\ Uncalled
    /\ vmConfig.nics[i] = "absent"
    /\ Cardinality({j \in NICIndices : vmConfig.nics[j] # "absent"}) < MaxNICs
    /\ vmConfig' = [vmConfig EXCEPT !.nics[i] = v]
    /\ UNCHANGED <<getRes, machine, refreshRes>>
    /\ UNCHANGED otherThanMachine

SetSerial(v) ==
    /\ Uncalled
    /\ vmConfig.basics = "ok" /\ vmConfig.serial = "ok" /\ vmConfig.storage = "ok"
    /\ v # "ok"
    /\ vmConfig' = [vmConfig EXCEPT !.serial = v]
    /\ UNCHANGED <<getRes, machine, refreshRes>>
    /\ UNCHANGED otherThanMachine

SetStorage(v) ==
    /\ Uncalled
    /\ vmConfig.basics = "ok" /\ vmConfig.serial = "ok" /\ vmConfig.storage = "ok"
    /\ v # "ok"
    /\ vmConfig' = [vmConfig EXCEPT !.storage = v]
    /\ UNCHANGED <<getRes, machine, refreshRes>>
    /\ UNCHANGED otherThanMachine

\* GetMachine("vm") is called by the goroutine 1, which keeps the result
CallGetMachine ==
    /\ getRes.status = "none"
    /\ caller[1].pc = "idle"
    /\ caller' = [caller EXCEPT ![1].pc = "Lock", ![1].op = "GetMachine",
                                ![1].id = "name", ![1].tool = <<>>]
    /\ UNCHANGED mutex
    /\ UNCHANGED otherThanCalls

\* machine.Refresh() is called by the goroutine 1 on the receiver machine,
\* whose Name is "vm": GetMachine(m.Name) is called
CallRefresh ==
    /\ refreshRes.status = "none"
    /\ caller[1].pc = "idle"
    /\ caller' = [caller EXCEPT ![1].pc = "Lock", ![1].op = "Refresh",
                                ![1].id = "name", ![1].tool = <<>>]
    /\ UNCHANGED mutex
    /\ UNCHANGED otherThanCalls

(***************************************************************************)
(* GetMachine called from several goroutines (src/unnamed/part_002): the   *)
(* lock around the showvminfo run of the tool and the error GetMachine     *)
(* makes of a failed run.  A caller is [pc, op, id, tool, res]: pc is      *)
(* "idle", "Lock" (at mutex.Lock()), "runOutErr" (the tool is running),    *)
(* "Unlock" (the tool has returned) or "decode" (the mutex is released);   *)
(* op is what the goroutine does with the result: "GetMachine" keeps it in *)
(* getRes, "Refresh" writes the receiver machine, "Stop" is the Refresh in *)
(* the loop of Stop, "any" keeps the error only; id is the kind of         *)
(* identifier given; tool is what runOutErr returned, [err, stderr,        *)
(* stdout]; res is the error of the last call that returned, "none" before *)
(* the first and from the return of the tool in the next.                  *)
(***************************************************************************)
Callers == 1..MaxCallers

IdleCaller ==
    [pc |-> "idle", op |-> "none", id |-> "none", tool |-> <<>>, res |-> "none"]

\* the messages of the tool on its standard error
sNotFoundNamed ==
    <<"V", "B", "o", "x", "M", "a", "n", "a", "g", "e", ":", " ", "e", "r", "r", "o", "r", ":", " ", "C", "o", "u", "l", "d", " ", "n", "o", "t", " ", "f", "i", "n", "d", " ", "a", " ", "r", "e", "g", "i", "s", "t", "e", "r", "e", "d", " ", "m", "a", "c", "h", "i", "n", "e", " ", "n", "a", "m", "e", "d", " ", "'", "v", "m", "'">>

sNotFoundByUuid ==
    <<"V", "B", "o", "x", "M", "a", "n", "a", "g", "e", ":", " ", "e", "r", "r", "o", "r", ":", " ", "C", "o", "u", "l", "d", " ", "n", "o", "t", " ", "f", "i", "n", "d", " ", "a", " ", "r", "e", "g", "i", "s", "t", "e", "r", "e", "d", " ", "m", "a", "c", "h", "i", "n", "e", " ", "w", "i", "t", "h", " ", "U", "U", "I", "D", " ", "{", "f", "0", "e", "5", "}">>

sNotReady ==
    <<"V", "B", "o", "x", "M", "a", "n", "a", "g", "e", ":", " ", "e", "r", "r", "o", "r", ":", " ", "T", "h", "e", " ", "o", "b", "j", "e", "c", "t", " ", "i", "s", " ", "n", "o", "t", " ", "r", "e", "a", "d", "y">>

\* what runOutErr returns when showvminfo shows the machine as created
CreatedVMShown == ToolShows(CreatedVM)

\* what runOutErr may return for an identifier of kind id: the VM info
\* with no error, the failure of the tool on an unknown machine, another
\* failure of the tool, and ErrCommandNotFound with nothing written
ToolResults(id) ==
    {CreatedVMShown,
     [err |-> "exit status 1",
      stderr |-> IF id = "name" THEN sNotFoundNamed ELSE sNotFoundByUuid,
      stdout |-> <<>>],
     [err |-> "exit status 1", stderr |-> sNotReady, stdout |-> <<>>],
     [err |-> "ErrCommandNotFound", stderr |-> <<>>, stdout |-> <<>>]}

\* s holds p from position i on
HasPrefixAt(s, i, p) ==
    i + Len(p) - 1 <= Len(s) /\ SubSeq(s, i, i + Len(p) - 1) = p

\* reMachineNotFound.FindString(stderr) != "" for the expression
\* Could not find a registered machine named '(.+)'
reMachineNotFound(stderr) ==
    LET p == <<"C", "o", "u", "l", "d", " ", "n", "o", "t", " ", "f", "i", "n", "d", " ", "a", " ", "r", "e", "g", "i", "s", "t", "e", "r", "e", "d", " ", "m", "a", "c", "h", "i", "n", "e", " ", "n", "a", "m", "e", "d", " ", "'">>
    IN  \E i \in 1..Len(stderr) :
            /\ HasPrefixAt(stderr, i, p)
            /\ \E j \in (i + Len(p) + 1)..Len(stderr) :
                   /\ stderr[j] = "'"
                   /\ \A k \in (i + Len(p))..(j - 1) : stderr[k] # sNewline

\* the error GetMachine makes of what runOutErr returned: "nil" when the
\* tool did not fail, "wrapped" for errors.Wrapf
GetMachineToolError(tool) ==
    IF tool.err # "nil"
       THEN IF reMachineNotFound(tool.stderr) THEN "ErrMachineNotExist"
            ELSE "wrapped"
    ELSE "nil"

\* what GetMachine returns for what runOutErr returned: [status, err, m]
GetMachineResult(tool) ==
    IF tool.err # "nil"
       THEN [status |-> "error", err |-> GetMachineToolError(tool), m |-> <<>>]
       ELSE GetMachine(tool.stdout)

\* a goroutine calls GetMachine(id): by a name (ListMachines,
\* CreateMachine, Refresh of a named machine) or by a UUID
CallGetMachineBy(c, id) ==
    /\ caller[c].pc = "idle"
    /\ caller' = [caller EXCEPT ![c].pc = "Lock", ![c].op = "any",
                                ![c].id = id, ![c].tool = <<>>]
    /\ UNCHANGED mutex
    /\ UNCHANGED otherThanCalls

\* a lock that is taken without waiting for the holder
MutexLockNoWait(c) ==
    /\ caller[c].pc = "Lock"
    /\ mutex' = c
    /\ caller' = [caller EXCEPT ![c].pc = "runOutErr"]
    /\ UNCHANGED otherThanCalls

\* mutex.Lock() returns and the tool is started
MutexLock(c) ==
    /\ caller[c].pc = "Lock"
    /\ mutex = 0
    /\ mutex' = c
    /\ caller' = [caller EXCEPT ![c].pc = "runOutErr"]
    /\ UNCHANGED otherThanCalls

\* the tool ends and runOutErr returns; the error of the call before is
\* no longer kept
RunOutErrReturns(c, tool) ==
    /\ caller[c].pc = "runOutErr"
    /\ caller' = [caller EXCEPT ![c].pc = "Unlock", ![c].tool = tool,
                                ![c].res = "none"]
    /\ UNCHANGED mutex
    /\ UNCHANGED otherThanCalls

\* mutex.Unlock()
MutexUnlock(c) ==
    /\ caller[c].pc = "Unlock"
    /\ mutex' = 0
    /\ caller' = [caller EXCEPT ![c].pc = "decode"]
    /\ UNCHANGED otherThanCalls

(***************************************************************************)
(* WaitGuestProperties (src/unnamed/part_006).  The state begins when the  *)
(* function has returned the channel: props is made, wg.Add(1) is done and *)
(* the goroutine is about to wait.  waiter.pc is "wait" (in                *)
(* WaitGuestProperty), "select" (at the select, waiter.prop holding the    *)
(* GuestProperty to send), "wgDone" and "closeProps" (the deferred calls,  *)
(* last deferred first) or "ended".  waiter.returned lists the changes the *)
(* waits returned, props.received those the consumer received.             *)
(***************************************************************************)
\* the values a changed guest property is reported with
GuestPropertyValues == {"test_val1", "test_val2"}

\* WaitGuestProperty returns a change: the goroutine goes to the select
WaitGuestPropertyReturns(value) ==
    /\ waiter.pc = "wait"
    /\ Len(waiter.returned) < MaxEvents
    /\ waiter' = [waiter EXCEPT
                     !.pc = "select",
                     !.prop = <<[Name |-> "test_name", Value |-> value]>>,
                     !.returned = Append(@, [Name |-> "test_name", Value |-> value])]
    /\ UNCHANGED <<props, done, wg>>
    /\ UNCHANGED otherThanWait

\* WaitGuestProperty returns an error: the goroutine returns
WaitGuestPropertyFails ==
    /\ waiter.pc = "wait"
    /\ waiter' = [waiter EXCEPT !.pc = "wgDone", !.failed = TRUE]
    /\ UNCHANGED <<props, done, wg>>
    /\ UNCHANGED otherThanWait

\* a send that does not wait for a receiver, as on a buffered channel
SendToBuffer ==
    /\ waiter.pc = "select"
    /\ waiter' = [waiter EXCEPT !.pc = "wait", !.prop = <<>>]
    /\ UNCHANGED <<props, done, wg>>
    /\ UNCHANGED otherThanWait

\* case props <- prop: the consumer receives from the unbuffered channel
\* and the goroutine goes on to the next wait
SendToConsumer ==
    /\ waiter.pc = "select"
    /\ props' = [props EXCEPT !.received = Append(@, waiter.prop[1])]
    /\ waiter' = [waiter EXCEPT !.pc = "wait", !.prop = <<>>]
    /\ UNCHANGED <<done, wg>>
    /\ UNCHANGED otherThanWait

\* case <-done: the channel done is closed and the goroutine returns
ReceiveDone ==
    /\ waiter.pc = "select"
    /\ done
    /\ waiter' = [waiter EXCEPT !.pc = "wgDone", !.prop = <<>>]
    /\ UNCHANGED <<props, done, wg>>
    /\ UNCHANGED otherThanWait

\* defer wg.Done()
DeferredWgDone ==
    /\ waiter.pc = "wgDone"
    /\ wg' = wg - 1
    /\ waiter' = [waiter EXCEPT !.pc = "closeProps", !.wgDone = @ + 1]
    /\ UNCHANGED <<props, done>>
    /\ UNCHANGED otherThanWait

\* defer close(props)
DeferredCloseProps ==
    /\ waiter.pc = "closeProps"
    /\ props' = [props EXCEPT !.closed = TRUE]
    /\ waiter' = [waiter EXCEPT !.pc = "ended"]
    /\ UNCHANGED <<done, wg>>
    /\ UNCHANGED otherThanWait

\* close(done) in the caller
CloseDone ==
    /\ ~done
    /\ done' = TRUE
    /\ UNCHANGED <<waiter, props, wg>>
    /\ UNCHANGED otherThanWait

(***************************************************************************)
(* Machine.Start, Stop and Restart (src/unnamed/part_002), one command of  *)
(* the tool at a time.  vmOp.State is the recorded m.State, vmOp.initial   *)
(* its value when the operation was called, vmOp.issued the commands run   *)
(* so far, vmOp.res "none", "nil" or "error".  vmOp.pc is "idle",          *)
(* "Restart.Start" (the Start of the switch of Restart), "Stop" (at the    *)
(* switch of Stop), "Stop.Start" (the Start of a paused machine in Stop),  *)
(* "loop" (at the test of the loop), "acpipowerbutton", "Refresh",         *)
(* "GetMachine" (in the GetMachine call of Refresh), "Start" (the last     *)
(* statement of Restart) or "returned".                                    *)
(***************************************************************************)
NoOp ==
    [op |-> "none", pc |-> "idle", State |-> MachineState.Poweroff,
     initial |-> MachineState.Poweroff, issued |-> <<>>, res |-> "none"]

\* the command Machine.Start runs for the recorded state, <<>> for none
StartCommand(state) ==
    IF state = MachineState.Paused THEN <<"resume">>
    ELSE IF state \in {MachineState.Poweroff, MachineState.Saved, MachineState.Aborted}
       THEN <<"startvm">>
    ELSE <<>>

\* m.Restart() is called on a machine with the recorded state
CallRestart(state) ==
    /\ vmOp.pc = "idle"
    /\ vmOp' = [NoOp EXCEPT
                   !.op = "Restart", !.State = state, !.initial = state,
                   !.pc = IF state \in {MachineState.Paused, MachineState.Saved}
                             THEN "Restart.Start" ELSE "Stop"]
    /\ UNCHANGED otherThanOp

\* m.Stop() is called on a machine with the recorded state
CallStop(state) ==
    /\ vmOp.pc = "idle"
    /\ vmOp' = [NoOp EXCEPT
                   !.op = "Stop", !.State = state, !.initial = state, !.pc = "Stop"]
    /\ UNCHANGED otherThanOp

\* m.Start() runs its command, which fails or not; without a command
\* Start returns nil
RunStart(failing) ==
    /\ vmOp.pc \in {"Restart.Start", "Stop.Start", "Start"}
    /\ failing => StartCommand(vmOp.State) # <<>>
    /\ vmOp' = [vmOp EXCEPT
                   !.issued = @ \o StartCommand(vmOp.State),
                   !.pc = IF failing \/ vmOp.pc = "Start" THEN "returned"
                          ELSE IF vmOp.pc = "Restart.Start" THEN "Stop"
                          ELSE "loop",
                   !.res = IF failing THEN "error"
                           ELSE IF vmOp.pc = "Start" THEN "nil"
                           ELSE @]
    /\ UNCHANGED otherThanOp

\* Stop returns nil: to its caller, or into Restart, which goes on to Start
StopReturnsNil(v) ==
    IF v.op = "Stop" THEN [v EXCEPT !.pc = "returned", !.res = "nil"]
    ELSE [v EXCEPT !.pc = "Start"]

\* the switch of Stop on the recorded state
StopSwitch ==
    /\ vmOp.pc = "Stop"
    /\ vmOp' = IF vmOp.State \in {MachineState.Poweroff, MachineState.Aborted,
                                  MachineState.Saved}
                  THEN StopReturnsNil(vmOp)
               ELSE IF vmOp.State = MachineState.Paused
                  THEN [vmOp EXCEPT !.pc = "Stop.Start"]
               ELSE [vmOp EXCEPT !.pc = "loop"]
    /\ UNCHANGED otherThanOp

\* for m.State != Poweroff
StopLoopTest ==
    /\ vmOp.pc = "loop"
    /\ vmOp' = IF vmOp.State # MachineState.Poweroff
                  THEN [vmOp EXCEPT !.pc = "acpipowerbutton"]
                  ELSE StopReturnsNil(vmOp)
    /\ UNCHANGED otherThanOp

\* controlvm acpipowerbutton, which fails or not
RunAcpiPowerButton(failing) ==
    /\ vmOp.pc = "acpipowerbutton"
    /\ Cardinality({i \in 1..Len(vmOp.issued) : vmOp.issued[i] = "acpipowerbutton"})
           < MaxPresses
    /\ vmOp' = [vmOp EXCEPT
                   !.issued = Append(@, "acpipowerbutton"),
                   !.pc = IF failing THEN "returned" ELSE "Refresh",
                   !.res = IF failing THEN "error" ELSE @]
    /\ UNCHANGED otherThanOp

\* m.Refresh() in the loop of Stop: the goroutine 1 calls GetMachine(m.Name)
RunRefresh ==
    /\ vmOp.pc = "Refresh"
    /\ caller[1].pc = "idle"
    /\ vmOp' = [vmOp EXCEPT !.pc = "GetMachine"]
    /\ caller' = [caller EXCEPT ![1].pc = "Lock", ![1].op = "Stop",
                                ![1].id = "name", ![1].tool = <<>>]
    /\ UNCHANGED <<mutex, vmConfig, getRes, machine, refreshRes>>
    /\ UNCHANGED otherThanGetMachine

\* what runOutErr may return to the Refresh of Stop: the machine in any
\* state, or a failure of the tool
StopToolResults ==
    {ToolShows([CreatedVM EXCEPT !.state = shown]) : shown \in MachineStates}
        \cup {[err |-> "exit status 1", stderr |-> sNotReady, stdout |-> <<>>]}

\* the Refresh of Stop has its result: the receiver takes the state shown,
\* or Stop returns the error
StopRefreshed(v, result) ==
    [v EXCEPT !.issued = Append(@, "showvminfo"),
              !.State = IF result.status = "ok" THEN result.m[1].State ELSE @,
              !.pc = IF result.status = "ok" THEN "loop" ELSE "returned",
              !.res = IF result.status = "ok" THEN @ ELSE "error"]

\* the rest of GetMachine after mutex.Unlock(), the error of the tool and
\* the decoding, and what the caller does with the result at once: keep
\* it, or for Refresh write the receiver
GetMachineReturns(c) ==
    /\ caller[c].pc = "decode"
    /\ LET result == GetMachineResult(caller[c].tool)
           op == caller[c].op
       IN  /\ caller' = [caller EXCEPT
                            ![c].pc = "idle",
                            ![c].res = IF result.status = "ok" THEN "nil"
                                       ELSE IF caller[c].tool.err # "nil"
                                          THEN GetMachineToolError(caller[c].tool)
                                       ELSE "decoding"]
           /\ getRes' = IF op = "GetMachine" THEN result ELSE getRes
           /\ machine' = IF op = "Refresh" THEN Refresh(machine, result).m
                         ELSE machine
           /\ refreshRes' = IF op = "Refresh"
                               THEN [status |-> Refresh(machine, result).status,
                                     before |-> machine]
                            ELSE refreshRes
           /\ vmOp' = IF op = "Stop" THEN StopRefreshed(vmOp, result) ELSE vmOp
    /\ UNCHANGED <<mutex, vmConfig>>
    /\ UNCHANGED otherThanGetMachine

\* the state before any call: empty CmdArgs, empty VM info maps and
\* listings, no result
Init ==
    /\ args = <<>>
    /\ overrides = <<>>
    /\ firstCall = "none"
    /\ vmPropMap = <<>>
    /\ encoded = <<>>
    /\ uartsRes = [status |-> "none", uarts |-> <<>>]
    /\ storagePropMap = <<>>
    /\ ctrlsRes = [status |-> "none", ctrls |-> <<>>]
    /\ dhcpListing = <<>>
    /\ dhcpOut = <<>>
    /\ dhcpRes = [status |-> "none", m |-> <<>>]
    /\ natListing = <<>>
    /\ natOut = <<>>
    /\ natRes = [status |-> "none", m |-> <<>>]
    /\ newUartRes = [in |-> <<>>, res |-> [uart |-> <<>>, errs |-> <<>>]]
    /\ uartMap = <<>>
    /\ uartsColl = [status |-> "none", uarts |-> <<>>, trimmed |-> FALSE]
    /\ cmdRes = [status |-> "none", cmdParams |-> <<>>]
    /\ vmInfoLines = <<>>
    /\ vmInfoRes = [called |-> FALSE, m |-> <<>>]
    /\ vmConfig = CreatedVM
    /\ getRes = [status |-> "none", err |-> <<>>, m |-> <<>>]
    /\ machine = [New EXCEPT !.Name = <<"v", "m">>]
    /\ refreshRes = [status |-> "none", before |-> <<>>]
    /\ mutex = 0
    /\ caller = [c \in Callers |-> IdleCaller]
    /\ waiter = [pc |-> "wait", prop |-> <<>>, returned |-> <<>>, failed |-> FALSE,
                 wgDone |-> 0]
    /\ props = [closed |-> FALSE, received |-> <<>>]
    /\ done = FALSE
    /\ wg = 1
    /\ vmOp = NoOp

NextCmdArgs ==
    \/ \E k \in CmdArgKeys : AppendNoValue(k)
    \/ \E k \in CmdArgKeys, v \in CmdArgValues : AppendKV(k, v)
    \/ \E arg \in CmdArgLists : AppendCmdArgs(arg)
    \/ \E arg \in CmdArgLists : AppendOverride(arg)

SpecCmdArgs == Init /\ [][NextCmdArgs]_vars

NextUART ==
    \/ \E uart \in EncodableUARTs : EncodeUART(uart)
    \/ \E prop \in RawProps : SetProp(prop[1], prop[2])
    \/ CallNewUARTs

SpecUART == Init /\ [][NextUART]_vars

NextStorage ==
    \/ \E i \in 0..7 : AddController(i)
    \/ \E i \in 0..7, choice \in TypeChoices : SetControllerType(i, choice)
    \/ \E i \in 0..7, choice \in PortCountChoices : SetPortCount(i, choice)
    \/ \E slot \in MediaSlots, value \in MediaValues : AttachMedium(slot, value)
    \/ CallNewStorageControllersFromProps

SpecStorage == Init /\ [][NextStorage]_vars

NextDHCP ==
    \/ \E item \in DHCPItems : AppendDHCPItem(item)
    \/ \E chop \in BOOLEAN : CallDHCPs(chop)

SpecDHCP == Init /\ [][NextDHCP]_vars

NextNATNets ==
    \/ \E item \in NATNetItems : AppendNATNetItem(item)
    \/ \E chop \in BOOLEAN : CallNATNets(chop)

SpecNATNets == Init /\ [][NextNATNets]_vars

NextNewUART ==
    \E keyStr \in KeyStrs, typeStr \in TypeStrs, portStr \in PortStrs,
       irqStr \in IrqStrs, modeStr \in ModeStrs, modeDataStr \in ModeDataStrs :
        CallNewUART(keyStr, typeStr, portStr, irqStr, modeStr, modeDataStr)

SpecNewUART == Init /\ [][NextNewUART]_vars

NextUARTCmd ==
    \/ \E key \in UARTKeys : \E uart \in CmdUARTs(key) : PutUART(key, uart)
    \/ CallNewUARTsFromUARTMap
    \/ CallWithoutUARTHavingStateOff
    \/ CallModifyVMCommandParameters

SpecUARTCmd == Init /\ [][NextUARTCmd]_vars

NextUARTMap ==
    \/ \E key \in CallerMapKeys : \E uart \in CallerUARTs : PutUARTUnder(key, uart)
    \/ CallNewUARTsFromUARTMap
    \/ CallWithoutUARTHavingStateOff
    \/ CallModifyVMCommandParameters

SpecUARTMap == Init /\ [][NextUARTMap]_vars

NextCalls ==
    \/ \E c \in Callers, id \in {"name", "UUID"} : CallGetMachineBy(c, id)
    \/ \E c \in Callers : MutexLock(c)
    \/ \E c \in Callers : \E tool \in ToolResults(caller[c].id) : RunOutErrReturns(c, tool)
    \/ \E c \in Callers : MutexUnlock(c)
    \/ \E c \in Callers : GetMachineReturns(c)

SpecCalls == Init /\ [][NextCalls]_vars

\* sync.Mutex hands the lock to a goroutine that has waited (starvation
\* mode), the tool ends, and a goroutine that can run does
SpecCallsFair ==
    /\ SpecCalls
    /\ \A c \in Callers :
           /\ SF_vars(MutexLock(c))
           /\ WF_vars(\E tool \in ToolResults(caller[c].id) : RunOutErrReturns(c, tool))
           /\ WF_vars(MutexUnlock(c))

NextWait ==
    \/ \E value \in GuestPropertyValues : WaitGuestPropertyReturns(value)
    \/ WaitGuestPropertyFails
    \/ SendToConsumer
    \/ ReceiveDone
    \/ DeferredWgDone
    \/ DeferredCloseProps
    \/ CloseDone

SpecWait == Init /\ [][NextWait]_vars

\* the goroutine runs when it can: a closed done is taken by the select
\* at some time that it is offered, and the deferred calls are made; the
\* tool and the consumer are under no obligation
SpecWaitFair ==
    /\ SpecWait
    /\ SF_vars(ReceiveDone)
    /\ WF_vars(DeferredWgDone)
    /\ WF_vars(DeferredCloseProps)

NextRestart ==
    \/ \E state \in MachineStates : CallRestart(state)
    \/ \E state \in MachineStates : CallStop(state)
    \/ \E failing \in BOOLEAN : RunStart(failing)
    \/ StopSwitch
    \/ StopLoopTest
    \/ \E failing \in BOOLEAN : RunAcpiPowerButton(failing)
    \/ RunRefresh
    \/ \E id \in {"name", "UUID"} : CallGetMachineBy(2, id)
    \/ \E c \in Callers : MutexLock(c)
    \/ \E c \in Callers :
           \E tool \in (IF caller[c].op = "Stop" THEN StopToolResults
                        ELSE ToolResults(caller[c].id)) : RunOutErrReturns(c, tool)
    \/ \E c \in Callers : MutexUnlock(c)
    \/ \E c \in Callers : GetMachineReturns(c)

SpecRestart == Init /\ [][NextRestart]_vars

NextVMInfo ==
    \/ \E l \in VMInfoLines : AppendVMInfoLine(l)
    \/ \E chop \in BOOLEAN : CallVminfoAsPropMap(chop)

SpecVMInfo == Init /\ [][NextVMInfo]_vars

NextMachine ==
    \/ \E v \in BasicsVariants : SetBasics(v)
    \/ \E i \in NICIndices : \E v \in NICVariantsAt(i) : SetNIC(i, v)
    \/ \E v \in SerialVariants : SetSerial(v)
    \/ \E v \in StorageVariants : SetStorage(v)
    \/ CallGetMachine
    \/ CallRefresh
    \/ MutexLock(1)
    \/ RunOutErrReturns(1, ToolShows(vmConfig))
    \/ MutexUnlock(1)
    \/ GetMachineReturns(1)

SpecMachine == Init /\ [][NextMachine]_vars

(***************************************************************************)
(* Properties of CmdArgs.                                                  *)
(***************************************************************************)
argStrs == Args(args, overrides)

\* the indices of the entries of sequence s whose key is k
EntriesOf(s, k) == {i \in 1..Len(s) : s[i].K = k}

\* the last entry of sequence s for key k (EntriesOf(s, k) is not empty)
LastEntry(s, k) == s[SetMax(EntriesOf(s, k))]

\* the positions of the token k in a token list
TokenPositions(toks, k) == {i \in 1..Len(toks) : toks[i] = k}

\* the tokens emitted for key k: k and what follows it up to the next key
EmittedFor(toks, k) ==
    IF TokenPositions(toks, k) = {} THEN <<>>
    ELSE LET i == SetMin(TokenPositions(toks, k))
             stops == {j \in (i + 1)..Len(toks) : toks[j] \in CmdArgKeys}
             last == IF stops = {} THEN Len(toks) ELSE SetMin(stops) - 1
         IN SubSeq(toks, i, last)

\* what a CmdArg without transform is meant to put on the command line
PlainEmission(arg) ==
    IF arg.Del THEN <<>>
    ELSE IF arg.V = <<>> THEN <<arg.K>>
    ELSE <<arg.K, arg.V[1]>>

NoTransform(s) == \A i \in 1..Len(s) : s[i].ToCmdArgParts = "nil"

\* C1: with no multi-token transform attached, Args() holds each key at most
\* once, and a key with entries in both sequences is emitted as the (last)
\* entry of the override sequence says, whatever the order of the calls.
C1_KeyOnceOverrideWins ==
    (NoTransform(args) /\ NoTransform(overrides)) =>
        \A k \in CmdArgKeys :
            /\ Cardinality(TokenPositions(argStrs, k)) <= 1
            /\ (EntriesOf(args, k) # {} /\ EntriesOf(overrides, k) # {}) =>
                   EmittedFor(argStrs, k) = PlainEmission(LastEntry(overrides, k))

\* C1 witness: two Append calls with one key, then one AppendOverride with
\* that key and another value; the key is emitted once, with that value.
C1_Witness ==
    \E k \in CmdArgKeys :
        /\ firstCall = "base"
        /\ args = <<NewCmdArg(k, "1"), NewCmdArg(k, "1")>>
        /\ overrides = <<NewCmdArg(k, "2")>>
        /\ argStrs = <<k, "2">>

\* C3: a key whose (last) override entry is flagged deleted has no token in
\* Args(), whatever the base sequence holds for it.
C3_DeletedNeverEmitted ==
    \A k \in CmdArgKeys :
        (EntriesOf(overrides, k) # {} /\ LastEntry(overrides, k).Del) =>
            TokenPositions(argStrs, k) = {}

\* C3 witness: the override deleting the key was added first, a non-deleted
\* base entry for the key after it.
C3_Witness ==
    \E k \in CmdArgKeys :
        /\ firstCall = "override"
        /\ EntriesOf(overrides, k) # {} /\ LastEntry(overrides, k).Del
        /\ EntriesOf(args, k) # {} /\ ~LastEntry(args, k).Del
        /\ TokenPositions(argStrs, k) = {}

\* the first occurrence of key k scanning base then override
FirstSeen(k) == SetMin(EntriesOf(args \o overrides, k))

\* the keys Args() is to emit: the last occurrence is not flagged deleted
Surviving ==
    {k \in CmdArgKeys :
        /\ EntriesOf(args \o overrides, k) # {}
        /\ ~LastEntry(args \o overrides, k).Del}

\* C4: Args() lists exactly the surviving keys, ordered by their first
\* occurrence in the base sequence followed by the override sequence.
C4_FirstSeenOrder ==
    /\ \A k \in CmdArgKeys :
           (k \in Surviving) <=> (Cardinality(TokenPositions(argStrs, k)) = 1)
    /\ \A k1 \in Surviving, k2 \in Surviving :
           (FirstSeen(k1) < FirstSeen(k2)) =>
               SetMin(TokenPositions(argStrs, k1)) < SetMin(TokenPositions(argStrs, k2))

\* C4 witness: AppendOverride was called first, with a new key ahead of a key
\* that the base sequence later introduces; the base key is emitted first.
C4_Witness ==
    \E k1 \in CmdArgKeys, k2 \in CmdArgKeys :
        /\ k1 # k2
        /\ firstCall = "override"
        /\ args = <<NewCmdArg(k1, "1")>>
        /\ overrides = <<NewCmdArg(k2, "1"), NewCmdArg(k1, "2")>>
        /\ argStrs = <<k1, "2", k2, "1">>

(***************************************************************************)
(* Properties of the UART codec.                                           *)
(***************************************************************************)
\* the key of slot n, written out
SlotKey(n) == <<"u", "a", "r", "t", Digits[n + 1]>>

\* the off value of slot n, written out
SlotOff(n) ==
    [ComConfig |-> [Port |-> 0, IRQ |-> 0], Type |-> <<>>, Mode |-> <<>>,
     ModeData |-> <<>>, Key |-> SlotKey(n)]

\* C2: writing a non-off UART as machine readable properties and decoding
\* them with NewUARTs yields that UART in its slot, the other slots off.
C2_RoundTrip ==
    (encoded # <<>> /\ uartsRes.status # "none") =>
        /\ uartsRes.status = "ok"
        /\ Len(uartsRes.uarts) = 4
        /\ \A n \in 1..4 :
               uartsRes.uarts[n] =
                   IF SlotKey(n) = encoded[1].Key THEN encoded[1] ELSE SlotOff(n)

\* C5: a successful NewUARTs returns four UARTs keyed uart1..uart4 in that
\* order, and a slot whose uart<N> key is absent or "off" holds the off
\* value, whatever the other properties are.
C5_FourSlotsOffWhenAbsent ==
    (uartsRes.status = "ok") =>
        /\ Len(uartsRes.uarts) = 4
        /\ \A n \in 1..4 :
               /\ uartsRes.uarts[n].Key = SlotKey(n)
               /\ (SlotKey(n) \notin DOMAIN vmPropMap \/ vmPropMap[SlotKey(n)] = sOff)
                      => uartsRes.uarts[n] = SlotOff(n)

\* C5 witness: uart1="off", uart3="off" and nothing else decode to four
\* off slots.
C5_Witness ==
    /\ DOMAIN vmPropMap = {SlotKey(1), SlotKey(3)}
    /\ vmPropMap[SlotKey(1)] = sOff
    /\ vmPropMap[SlotKey(3)] = sOff
    /\ uartsRes = [status |-> "ok",
                   uarts |-> <<SlotOff(1), SlotOff(2), SlotOff(3), SlotOff(4)>>]

AllDigitsOfBase(s, base) ==
    /\ Len(s) > 0
    /\ \A i \in 1..Len(s) : DigitValue(s[i]) < base

\* the shape 0x<hex>,<decimal> of a uart<N> value
WellShapedUartValue(v) ==
    LET parts == Split(v, ",")
    IN /\ Len(parts) = 2
       /\ Len(parts[1]) > 2
       /\ SubSeq(parts[1], 1, 2) = <<"0", "x">>
       /\ AllDigitsOfBase(SubSeq(parts[1], 3, Len(parts[1])), 16)
       /\ AllDigitsOfBase(parts[2], 10)

\* C10: when some uart<N> value is present, is not "off" and is not of the
\* shape 0x<hex>,<decimal>, NewUARTs returns an error: it neither accepts
\* the value nor aborts.
C10_MalformedUartIsError ==
    (/\ uartsRes.status # "none"
     /\ \E k \in UARTKeys :
            /\ k \in DOMAIN vmPropMap
            /\ vmPropMap[k] # sOff
            /\ ~WellShapedUartValue(vmPropMap[k]))
        => uartsRes.status = "error"

(***************************************************************************)
(* Properties of the storage controller codec.                             *)
(***************************************************************************)
\* the members of the set S of numbers in ascending order
AscendingIndices(S) ==
    [k \in 1..Cardinality(S) |->
        CHOOSE i \in S : Cardinality({j \in S : j < i}) = k - 1]

\* the order of (Port, Device) pairs
PortDeviceLess(a, b) ==
    \/ a.Port < b.Port
    \/ a.Port = b.Port /\ a.Device < b.Device

\* C8: NewStorageControllersFromProps returns one controller for exactly
\* the indices 0..7 whose storagecontrollername key is present, in ascending
\* order of the index; the Devices of each controller are strictly
\* ascending by (Port, Device), with Port < Ports, Device < 2 on the ide and
\* floppy buses and Device = 0 on every other bus, and every device stands
\* for a slot key that is present.
C8_ControllersAndDevicesAscending ==
    ctrlsRes.status = "ok" =>
        LET idx == AscendingIndices(PresentControllers(storagePropMap))
            ctrls == ctrlsRes.ctrls
        IN  /\ Len(ctrls) = Len(idx)
            /\ \A k \in 1..Len(ctrls) :
                 LET dev == ctrls[k].Devices
                 IN  /\ ctrls[k].Name = storagePropMap[nameKey(FormatDec(idx[k]))]
                     /\ \A a, b \in 1..Len(dev) :
                            a < b => PortDeviceLess(dev[a], dev[b])
                     /\ \A a \in 1..Len(dev) :
                          /\ dev[a].Port >= 0
                          /\ dev[a].Port < ctrls[k].Ports
                          /\ dev[a].Device >= 0
                          /\ IF ctrls[k].SysBus \in {SysBus.IDE, SysBus.Floppy}
                                THEN dev[a].Device < 2
                                ELSE dev[a].Device = 0
                          /\ slotKey(<<ctrls[k].Name, dev[a].Port, dev[a].Device>>)
                                 \in DOMAIN storagePropMap

\* two controllers whose indices are not neighbours were decoded, one of
\* them with the devices (0, 1) and (1, 0) and no device (0, 0)
C8_Witness ==
    /\ ctrlsRes.status = "ok"
    /\ Len(ctrlsRes.ctrls) = 2
    /\ \E i, j \in PresentControllers(storagePropMap) : j > i + 1
    /\ \E k \in 1..2 :
         /\ Len(ctrlsRes.ctrls[k].Devices) = 2
         /\ ctrlsRes.ctrls[k].Devices[1].Port = 0
         /\ ctrlsRes.ctrls[k].Devices[1].Device = 1
         /\ ctrlsRes.ctrls[k].Devices[2].Port = 1
         /\ ctrlsRes.ctrls[k].Devices[2].Device = 0

\* the lookup table of type tokens as triples <<token, bus, chipset>>
TypeTable ==
    {<<scTypes.IntelAhci, SysBus.SATA, Ctrl.IntelAHCI>>,
     <<scTypes.LsiLogic, SysBus.SCSI, Ctrl.LSILogic>>,
     <<scTypes.BusLogic, SysBus.SCSI, Ctrl.BusLogic>>,
     <<scTypes.PIIX3, SysBus.IDE, Ctrl.PIIX3>>,
     <<scTypes.PIIX4, SysBus.IDE, Ctrl.PIIX4>>,
     <<scTypes.ICH6, SysBus.IDE, Ctrl.ICH6>>,
     <<scTypes.I82078, SysBus.Floppy, Ctrl.I82078>>,
     <<scTypes.LsiLogicSas, SysBus.SAS, Ctrl.LSILogicSAS>>,
     <<scTypes.USB, SysBus.USB, Ctrl.USB>>,
     <<scTypes.NVMe, SysBus.PCI, Ctrl.NVMe>>,
     <<scTypes.VirtioSCSI, SysBus.VirtioSCSI, Ctrl.VirtioSCSI>>}

\* the type token of controller i, "" when the key is absent
TypeTokenOf(i) == MapGet(storagePropMap, typeKey(FormatDec(i)))

\* the port count of controller i is a numeral that is not negative
PortCountUsable(i) ==
    /\ Atoi(MapGet(storagePropMap, portCountKey(FormatDec(i)))).ok
    /\ Atoi(MapGet(storagePropMap, portCountKey(FormatDec(i)))).val >= 0

\* C9: a controller whose type token is one of the 11 known tokens is
\* decoded with the (bus, chipset) pair of the lookup table, the token
\* "unknown" gives bus = chipset = "unknown" without an error, and any other
\* token, an absent storagecontrollertype key included, makes
\* NewStorageControllersFromProps return an error and no list.
C9_TypeTokenTable ==
    ctrlsRes.status /= "none" =>
        LET present == PresentControllers(storagePropMap)
            idx == AscendingIndices(present)
        IN  /\ (\E i \in present :
                    TypeTokenOf(i) \notin KnownTypeTokens \cup {sUnknown})
                   => ctrlsRes.status = "error" /\ ctrlsRes.ctrls = <<>>
            /\ ((\A i \in present :
                     /\ TypeTokenOf(i) \in KnownTypeTokens \cup {sUnknown}
                     /\ PortCountUsable(i))
                   => ctrlsRes.status = "ok" /\ Len(ctrlsRes.ctrls) = Len(idx))
            /\ ctrlsRes.status = "ok" =>
                   \A k \in 1..Len(ctrlsRes.ctrls) :
                       IF TypeTokenOf(idx[k]) = sUnknown
                          THEN /\ ctrlsRes.ctrls[k].SysBus = sUnknown
                               /\ ctrlsRes.ctrls[k].Chipset = sUnknown
                          ELSE <<TypeTokenOf(idx[k]), ctrlsRes.ctrls[k].SysBus,
                                 ctrlsRes.ctrls[k].Chipset>> \in TypeTable

\* the decoding of a controller without a storagecontrollertype key failed
C9_Witness ==
    /\ ctrlsRes.status = "error"
    /\ ctrlsRes.ctrls = <<>>
    /\ \E i \in PresentControllers(storagePropMap) :
         /\ typeKey(FormatDec(i)) \notin DOMAIN storagePropMap
         /\ PortCountUsable(i)

(***************************************************************************)
(* Properties of the listing parsers.                                      *)
(***************************************************************************)
\* the DHCP that a record item describes: the fields the listing shows,
\* the zero value for the others
ShownDHCP(item) ==
    LET v == DHCPValues[item.val]
        d == v.dhcp
    IN  [NetworkName |-> IF "name" \in v.has THEN d.NetworkName ELSE <<>>,
         IPv4 |-> [IP |-> IF "ip" \in v.has THEN d.IPv4.IP ELSE <<>>,
                   Mask |-> IF "mask" \in v.has THEN d.IPv4.Mask ELSE <<>>],
         LowerIP |-> IF "lower" \in v.has THEN d.LowerIP ELSE <<>>,
         UpperIP |-> IF "upper" \in v.has THEN d.UpperIP ELSE <<>>,
         Enabled |-> ("enabled" \in v.has /\ d.Enabled)]

\* the listing is two named records of distinct names with blank lines,
\* and nothing else, between them
TwoSeparatedDHCPRecords ==
    LET n == Len(dhcpListing)
    IN  /\ n >= 3
        /\ dhcpListing[1].kind = "record"
        /\ dhcpListing[n].kind = "record"
        /\ \A i \in 2..(n - 1) : dhcpListing[i].kind = "blank"
        /\ ShownDHCP(dhcpListing[1]).NetworkName /= <<>>
        /\ ShownDHCP(dhcpListing[n]).NetworkName /= <<>>
        /\ ShownDHCP(dhcpListing[1]).NetworkName
               /= ShownDHCP(dhcpListing[n]).NetworkName

\* C6: on a listing of two blank line separated records of distinct names,
\* the second without a blank line after it, DHCPs returns a map of exactly
\* two entries keyed by the network names, each with the address, mask,
\* lower and upper address and enabled flag of its own record only, in
\* whatever case the field names are written and with "IP" as well as
\* "Dhcpd IP" for the address.
C6_TwoRecordsBothPresent ==
    (dhcpRes.status /= "none" /\ TwoSeparatedDHCPRecords) =>
        LET first == ShownDHCP(dhcpListing[1])
            second == ShownDHCP(dhcpListing[Len(dhcpListing)])
        IN  /\ dhcpRes.status = "ok"
            /\ DOMAIN dhcpRes.m = {first.NetworkName, second.NetworkName}
            /\ dhcpRes.m[first.NetworkName] = first
            /\ dhcpRes.m[second.NetworkName] = second

\* DHCPs has read a record with "IP" and lower case field names, a blank
\* line and a record with "Dhcpd IP" whose last line has no newline
C6_Witness ==
    /\ dhcpRes.status = "ok"
    /\ TwoSeparatedDHCPRecords
    /\ Len(dhcpListing) = 3
    /\ dhcpListing[1].fmt = 1
    /\ dhcpListing[3].fmt = 2
    /\ dhcpOut[Len(dhcpOut)] /= sNewline
    /\ Cardinality(DOMAIN dhcpRes.m) = 2

\* C7: NATNets does not drop the last record: when the listing ends with a
\* record that has a name and no blank line after it, the returned map
\* holds that record under its name.
C7_LastRecordKept ==
    LET n == Len(natListing)
    IN  (/\ natRes.status = "ok"
         /\ n > 0
         /\ natListing[n].kind = "record"
         /\ "name" \in NATNetValues[natListing[n].val].has)
            => /\ NATNetValues[natListing[n].val].name \in DOMAIN natRes.m
               /\ natRes.m[NATNetValues[natListing[n].val].name].Name
                      = NATNetValues[natListing[n].val].name

(***************************************************************************)
(* Properties of the modifyvm parameters of a UARTs collection.            *)
(***************************************************************************)
\* the parameter name --<name><n> as the command line shows it
ParamName(name, n) == <<"-", "-">> \o name \o <<Digits[n + 1]>>

\* the slots of the collection, four or those left by
\* WithoutUARTHavingStateOff
Slots == 1..Len(uartsColl.uarts)

\* the N of the slot n: the rank of the Key of its UART
SlotRank(n) == ToRank(uartsColl.uarts[n].Key)

\* the tokens of cmdRes.cmdParams from the --uart<N> of the slot n up to
\* the --uart<N> of the next slot
SlotFragment(n) ==
    LET toks == cmdRes.cmdParams
        start == IndexOf(ParamName(sUart, SlotRank(n)), toks)
        stop == IF n = Len(uartsColl.uarts) THEN Len(toks) + 1
                ELSE IndexOf(ParamName(sUart, SlotRank(n + 1)), toks)
    IN  IF start = 0 \/ stop = 0 \/ stop < start THEN <<>>
        ELSE SubSeq(toks, start, stop - 1)

\* the slots of the collection whose I/O base and IRQ are both 0
ZeroPairSlots ==
    {n \in Slots : uartsColl.uarts[n].ComConfig.Port = 0
                       /\ uartsColl.uarts[n].ComConfig.IRQ = 0}

\* C11: a UART is off exactly when its I/O base and IRQ are both 0,
\* whatever its type, mode and mode data hold: the parameters of such a
\* slot N are exactly the two tokens --uart<N> off, those of any other slot
\* do not start with --uart<N> off, and a collection of four off slots
\* gives exactly --uart1 off .. --uart4 off.
C11_OffIffZeroPair ==
    cmdRes.status = "ok" =>
        /\ \A n \in ZeroPairSlots :
               SlotFragment(n) = <<ParamName(sUart, SlotRank(n)), sOff>>
        /\ \A n \in Slots \ ZeroPairSlots :
               /\ Len(SlotFragment(n)) > 2
               /\ SlotFragment(n)[1] = ParamName(sUart, SlotRank(n))
               /\ SlotFragment(n)[2] # sOff
        /\ (Slots = 1..4 /\ ZeroPairSlots = 1..4) =>
               cmdRes.cmdParams =
                   <<ParamName(sUart, 1), sOff, ParamName(sUart, 2), sOff,
                     ParamName(sUart, 3), sOff, ParamName(sUart, 4), sOff>>

\* the parameters were made of a collection with an off slot that holds a
\* mode, mode data and a type, next to a slot that is not off
C11_Witness ==
    /\ cmdRes.status = "ok"
    /\ \E n \in ZeroPairSlots :
           /\ uartsColl.uarts[n].Mode = UARTMode.File
           /\ uartsColl.uarts[n].ModeData # <<>>
           /\ uartsColl.uarts[n].Type = UARTType.T16750
    /\ ZeroPairSlots # Slots

\* the tokens the slot n is to give when it is not off
ExpectedFragment(n) ==
    LET uart == uartsColl.uarts[n]
    IN  <<ParamName(sUart, SlotRank(n)), FormatIoBase(uart.ComConfig.Port),
          FormatDec(uart.ComConfig.IRQ), ParamName(sUartmode, SlotRank(n)),
          uart.Mode>>
            \o (IF uart.Mode = UARTMode.Disconnected THEN <<>>
                ELSE <<uart.ModeData>>)
            \o <<ParamName(sUarttype, SlotRank(n)), uart.Type>>

\* C12: the parameters of a slot N that is not off are, in this order,
\* --uart<N>, the I/O base as 0x and four hexadecimal digits, the IRQ in
\* decimal, --uartmode<N>, the mode, one token equal to ModeData unless the
\* mode is disconnected, --uarttype<N> and the type.
C12_NonOffFragment ==
    cmdRes.status = "ok" =>
        \A n \in Slots \ ZeroPairSlots :
            /\ SlotFragment(n) = ExpectedFragment(n)
            /\ Len(SlotFragment(n)[2]) = 6
            /\ ParseUint(SubSeq(SlotFragment(n)[2], 3, 6), 16) =
                   [ok |-> TRUE, val |-> uartsColl.uarts[n].ComConfig.Port]
            /\ ParseUint(SlotFragment(n)[3], 10) =
                   [ok |-> TRUE, val |-> uartsColl.uarts[n].ComConfig.IRQ]

(***************************************************************************)
(* Properties of NewUART.                                                  *)
(***************************************************************************)
\* s is 0x followed by hexadecimal digits and nothing else
WrittenAsHex(s) ==
    /\ Len(s) >= 3
    /\ SubSeq(s, 1, 2) = <<"0", "x">>
    /\ \A i \in 3..Len(s) : DigitValue(s[i]) < 16

\* s is a decimal numeral
WrittenAsDecimal(s) == s # <<>> /\ \A i \in 1..Len(s) : DigitValue(s[i]) < 10

SixModes ==
    {UARTMode.Server, UARTMode.Client, UARTMode.TCPServer, UARTMode.TCPClient,
     UARTMode.File, UARTMode.Disconnected}

\* the fields of the input in that do not pass their validation
FailingFields(in) ==
    (IF in[1] \in UARTKeys THEN {} ELSE {"key"})
        \cup (IF in[2] \in UARTTypes THEN {} ELSE {"type"})
        \cup (IF in[5] \in SixModes THEN {} ELSE {"mode"})
        \cup (IF in[3] # <<>> /\ in[4] # <<>>
                 THEN (IF WrittenAsHex(in[3]) THEN {} ELSE {"port"})
                          \cup (IF WrittenAsDecimal(in[4]) THEN {} ELSE {"irq"})
              ELSE IF in[3] # <<>> \/ in[4] # <<>> THEN {"port and irq"}
              ELSE {})

\* C13: for a supported key, type and mode, a port written 0x<hex> and a
\* decimal IRQ, NewUART returns no error and a UART whose Key, Type, Mode,
\* ModeData, I/O base and IRQ are the values given.
C13_ValidInputGivesUART ==
    (/\ newUartRes.in # <<>>
     /\ FailingFields(newUartRes.in) = {}
     /\ newUartRes.in[3] # <<>>)
        => /\ newUartRes.res.errs = <<>>
           /\ newUartRes.res.uart =
                  <<[ComConfig |->
                         [Port |-> ParseUint(SubSeq(newUartRes.in[3], 3,
                                                    Len(newUartRes.in[3])), 16).val,
                          IRQ |-> ParseUint(newUartRes.in[4], 10).val],
                     Type |-> newUartRes.in[2],
                     Mode |-> newUartRes.in[5],
                     ModeData |-> newUartRes.in[6],
                     Key |-> newUartRes.in[1]]>>

\* C14: the error NewUART returns names every field that fails its
\* validation, and there is no error exactly when no field fails.
C14_EveryFailureReported ==
    newUartRes.in # <<>> =>
        {newUartRes.res.errs[i] : i \in 1..Len(newUartRes.res.errs)}
            = FailingFields(newUartRes.in)

(***************************************************************************)
(* Properties of the media of the storage controllers.                     *)
(***************************************************************************)
\* the slots <<port, device>> of controller c whose key is present, within
\* the port and device bounds, and whose medium is not "none"
MaterialSlots(c) ==
    {pd \in (0..(c.Ports - 1)) \X
            (0..(IF c.SysBus \in {SysBus.IDE, SysBus.Floppy} THEN 1 ELSE 0)) :
        /\ slotKey(<<c.Name, pd[1], pd[2]>>) \in DOMAIN storagePropMap
        /\ storagePropMap[slotKey(<<c.Name, pd[1], pd[2]>>)] # sNone}

\* C15: no device of a decoded controller has the medium "none", whether
\* or not the slot has an ImageUUID key; every other present slot within
\* the bounds gives exactly one device, which carries the medium and the
\* UUID of the slot.
C15_NoneNeverMaterialized ==
    ctrlsRes.status = "ok" =>
        \A k \in 1..Len(ctrlsRes.ctrls) :
            LET c == ctrlsRes.ctrls[k]
            IN  /\ \A a \in 1..Len(c.Devices) : c.Devices[a].Medium # sNone
                /\ \A pd \in MaterialSlots(c) :
                       Cardinality({a \in 1..Len(c.Devices) :
                           /\ c.Devices[a].Port = pd[1]
                           /\ c.Devices[a].Device = pd[2]
                           /\ c.Devices[a].Medium =
                                  storagePropMap[slotKey(<<c.Name, pd[1], pd[2]>>)]
                           /\ c.Devices[a].UUID =
                                  MapGet(storagePropMap,
                                         uuidKey(<<c.Name, pd[1], pd[2]>>))}) = 1
                /\ Len(c.Devices) = Cardinality(MaterialSlots(c))

(***************************************************************************)
(* Properties of the listings with several records.                        *)
(***************************************************************************)
\* the NAT network listing shows a named record, later a blank line, and
\* later again a record of the same name
NATNetNameShownTwice ==
    \E i, j \in 1..Len(natListing) :
        /\ i < j
        /\ natListing[i].kind = "record"
        /\ natListing[j].kind = "record"
        /\ \E b \in (i + 1)..(j - 1) : natListing[b].kind = "blank"
        /\ "name" \in NATNetValues[natListing[i].val].has
        /\ "name" \in NATNetValues[natListing[j].val].has
        /\ NATNetValues[natListing[i].val].name
               = NATNetValues[natListing[j].val].name

\* C16: a record whose name is already in the registry built from the same
\* listing is a fatal parse error: the parser returns an error and no map.
\* Stated for NATNets.
C16_DuplicateNameIsError ==
    (natRes.status # "none" /\ NATNetNameShownTwice) =>
        (natRes.status = "error" /\ natRes.m = <<>>)

\* the listing is one full record and a blank line after it, and the tool
\* output was read whole
OneStoredNATNetRecord ==
    /\ Len(natListing) = 2
    /\ natListing[1].kind = "record"
    /\ natListing[1].val \in {1, 2}
    /\ natListing[2].kind = "blank"
    /\ natOut = NATNetListingText(natListing)

\* the same listing with its record written in the other format
InOtherFormat ==
    <<[natListing[1] EXCEPT !.fmt = 3 - natListing[1].fmt], natListing[2]>>

\* C17: NATNets gives the same NATNet for a network whether its record is
\* written in the older format (NetworkName, IP, DHCP Enabled) or in the
\* newer one (Name, Gateway, DHCP Server): name, IPv4 address and mask,
\* IPv6 mask, DHCP flag and Enabled flag are equal.
C17_SameInBothFormats ==
    (natRes.status # "none" /\ OneStoredNATNetRecord) =>
        natRes = NATNets(NATNetListingText(InOtherFormat))

(***************************************************************************)
(* Properties of vminfoAsPropMap.                                          *)
(***************************************************************************)
\* the positions of the lines of vmInfoLines that show the key
LinesOfKey(key) ==
    {i \in 1..Len(vmInfoLines) :
        vmInfoLines[i].kind = "kv" /\ vmInfoLines[i].key = key}

\* C18: vminfoAsPropMap maps every line key=value, key and value each
\* quoted or bare, to the entry key -> value without the quotes, skips
\* every other line, and keeps for a key the value of its last line.
C18_LastQuotedOrBareValue ==
    vmInfoRes.called =>
        /\ DOMAIN vmInfoRes.m = {k \in {sCpus, sName} : LinesOfKey(k) # {}}
        /\ \A k \in DOMAIN vmInfoRes.m :
               vmInfoRes.m[k] = vmInfoLines[SetMax(LinesOfKey(k))].val

(***************************************************************************)
(* Properties of GetMachine and Refresh.                                   *)
(***************************************************************************)
\* the NIC indices GetMachine decodes: those before the first index whose
\* nic<i> line is absent or "none"
DecodedNICs ==
    {i \in 1..4 : \A j \in 1..i : vmConfig.nics[j] \notin {"absent", "none"}}

\* the decoded indices that lack their nictype or have an empty macaddress
FaultyNICs == {i \in DecodedNICs : vmConfig.nics[i] \in {"notype", "nomac"}}

\* the key a faulty NIC index is to be reported with
FaultyNICKey(i) ==
    IF vmConfig.nics[i] = "notype" THEN <<"n", "i", "c", "t", "y", "p", "e">> \o <<Digits[i + 1]>>
    ELSE <<"m", "a", "c", "a", "d", "d", "r", "e", "s", "s">> \o <<Digits[i + 1]>>

\* C19: GetMachine decodes the NICs of the indices before the first index
\* in 1..4 whose nic<i> is absent or "none": the list has at most 4
\* entries, NICs[k] is the NIC of index k, and no NIC of a later index is
\* in it; a decoded index without nictype<i> or with an empty
\* macaddress<i> makes GetMachine fail with an error that names that key.
C19_NICsUpToFirstNone ==
    /\ getRes.status = "ok" =>
           /\ FaultyNICs = {}
           /\ Len(getRes.m[1].NICs) = Cardinality(DecodedNICs)
           /\ Len(getRes.m[1].NICs) <= 4
           /\ \A k \in 1..Len(getRes.m[1].NICs) :
                  /\ getRes.m[1].NICs[k].Network =
                         (IF vmConfig.nics[k] = "hostonly" THEN <<"h", "o", "s", "t", "o", "n", "l", "y">>
                          ELSE <<"n", "a", "t">>)
                  /\ getRes.m[1].NICs[k].Hardware = <<"v", "i", "r", "t", "i", "o">>
                  /\ getRes.m[1].NICs[k].MacAddr = <<"0", "8", "0", "0">> \o <<Digits[k + 1]>>
    /\ (getRes.status # "none" /\ FaultyNICs # {}) =>
           /\ getRes.status = "error"
           /\ getRes.m = <<>>
           /\ vmConfig.basics = "ok" => getRes.err = FaultyNICKey(SetMin(FaultyNICs))

\* GetMachine returned a machine with the four NICs of the indices 1 to 4,
\* while the index 5 has a NIC as well
C19_Witness ==
    /\ getRes.status = "ok"
    /\ DecodedNICs = 1..4
    /\ vmConfig.nics[1] = "hostonly"
    /\ vmConfig.nics[5] = "nat"
    /\ Len(getRes.m[1].NICs) = 4

\* the configuration has something that GetMachine is to fail on
FailureShown ==
    \/ vmConfig.basics # "ok"
    \/ FaultyNICs # {}
    \/ vmConfig.serial # "ok"
    \/ vmConfig.storage # "ok"

\* C20: GetMachine returns a complete Machine and no error, or no Machine
\* and an error: with memory, cpus or vram absent or no unsigned integer,
\* or a failing decoding of the NICs, the UARTs or the storage
\* controllers, the result is (nil, error); and Refresh leaves its
\* receiver unchanged when GetMachine fails.
C20_AllOrNothing ==
    /\ getRes.status # "none" =>
           IF FailureShown
              THEN getRes.status = "error" /\ getRes.m = <<>>
              ELSE /\ getRes.status = "ok"
                   /\ getRes.m # <<>>
                   /\ getRes.m[1].Memory = 512
                   /\ getRes.m[1].CPUs = 2
                   /\ getRes.m[1].VRAM = 16
                   /\ Len(getRes.m[1].UARTs) = 4
                   /\ Len(getRes.m[1].StorageControllers) = 1
    /\ refreshRes.status # "none" =>
           IF FailureShown
              THEN refreshRes.status = "error" /\ machine = refreshRes.before
              ELSE refreshRes.status = "ok"

(***************************************************************************)
(* Further properties of CmdArgs.                                          *)
(***************************************************************************)
\* what the CmdArg object arg, taken alone, puts on the command line
WholeEmission(arg) ==
    IF arg.Del THEN <<>>
    ELSE IF arg.V = <<>> THEN <<arg.K>>
    ELSE IF arg.ToCmdArgParts = "nil" THEN <<arg.K, arg.V[1]>>
    ELSE <<arg.K, "part", arg.V[1]>>

\* C25: for every key with an entry, Args() emits exactly what the last
\* entry of the key, scanning the base and then the override sequence,
\* says by itself: its value or flag-only form, its deletion flag and its
\* multi-token transform; nothing of an earlier entry of the key remains.
C25_LastOccurrenceDecides ==
    \A k \in CmdArgKeys :
        EntriesOf(args \o overrides, k) # {} =>
            EmittedFor(argStrs, k) = WholeEmission(LastEntry(args \o overrides, k))

\* C25 witness: in the base sequence a deleted entry is followed by an
\* entry of the same key with a transform, which an override without a
\* transform replaces; the plain pair of the override is emitted.
C25_Witness ==
    \E k \in CmdArgKeys :
        /\ args = <<NewCmdArgDeleted(k), NewCmdArgWithParts(k, "1")>>
        /\ overrides = <<NewCmdArg(k, "2")>>
        /\ argStrs = <<k, "2">>

(***************************************************************************)
(* Properties of the vocabulary of the UART modes.                         *)
(***************************************************************************)
\* the modes UARTModelAllSupported lists
ListedModes == {UARTModelAllSupported[i] : i \in 1..Len(UARTModelAllSupported)}

\* the uartmode1 parser takes the mode string modeStr, given with data
ParsedAsMode(modeStr) ==
    ~initUARTModeFromVMInfoMap(
         UARTOffFromKey(UARTKey.UART1),
         [k \in {sUartmode \o <<"1">>} |-> modeStr \o <<",", "x">>]).err

\* C26: the list of UARTModelAllSupported holds the six modes server,
\* client, tcpserver, tcpclient, file and disconnected, each once, and the
\* mode string given to NewUART is in the list exactly when
\* UARTModeFromStringIfSupported takes it and exactly when the uartmode<N>
\* parser takes it.
C26_OneModeVocabulary ==
    /\ Len(UARTModelAllSupported) = 6
    /\ ListedModes = SixModes
    /\ newUartRes.in # <<>> =>
           /\ (newUartRes.in[5] \in ListedModes)
                  <=> ~UARTModeFromStringIfSupported(newUartRes.in[5]).err
           /\ (newUartRes.in[5] \in ListedModes)
                  <=> ParsedAsMode(newUartRes.in[5])

(***************************************************************************)
(* Properties of the records without a name and of the keys of the maps.   *)
(***************************************************************************)
\* the NAT network listing shows a record without a name line
NATNetRecordWithoutName ==
    \E i \in 1..Len(natListing) :
        /\ natListing[i].kind = "record"
        /\ "name" \notin NATNetValues[natListing[i].val].has

\* the DHCP server listing shows a record without a network name line
DHCPRecordWithoutName ==
    \E i \in 1..Len(dhcpListing) :
        /\ dhcpListing[i].kind = "record"
        /\ "name" \notin DHCPValues[dhcpListing[i].val].has

\* C27: a record without a name is a fatal error: the map NATNets returns
\* has no entry under the empty key, whatever blank lines the listing
\* holds, and a listing with a record that has fields and no name makes
\* NATNets, and DHCPs, return an error and no map.
C27_NamelessRecordIsError ==
    /\ natRes.status = "ok" => <<>> \notin DOMAIN natRes.m
    /\ (natRes.status # "none" /\ NATNetRecordWithoutName) =>
           (natRes.status = "error" /\ natRes.m = <<>>)
    /\ (dhcpRes.status # "none" /\ DHCPRecordWithoutName) =>
           (dhcpRes.status = "error" /\ dhcpRes.m = <<>>)

\* C28: in the map DHCPs returns every key is the NetworkName of the
\* record it maps to, and two keys map to two records, also when the
\* listing has records that no blank line separates.
C28_KeyIsNetworkName ==
    dhcpRes.status = "ok" =>
        /\ \A name \in DOMAIN dhcpRes.m : dhcpRes.m[name].NetworkName = name
        /\ \A n1, n2 \in DOMAIN dhcpRes.m :
               n1 # n2 => dhcpRes.m[n1] # dhcpRes.m[n2]

(***************************************************************************)
(* Properties of the collection made from a map of UARTs.                  *)
(***************************************************************************)
\* the number of tokens --uart<n> in the parameter list
UartNCount(n) ==
    Cardinality({i \in 1..Len(cmdRes.cmdParams) :
                    cmdRes.cmdParams[i] = ParamName(sUart, n)})

\* C29: NewUARTsFromUARTMap returns four slots, slot i holding a UART with
\* the Key uart<i>: the entry of the map key uart<i> when the map has one,
\* the off UART otherwise; there is an error exactly when the map has an
\* unsupported key, and such an entry changes no slot.  The parameters of
\* the collection then hold --uart<N> once for each N in 1..4.  A
\* collection that WithoutUARTHavingStateOff has cut is not meant.
C29_FourSlotsByKey ==
    /\ (uartsColl.status # "none" /\ ~uartsColl.trimmed) =>
           /\ Len(uartsColl.uarts) = 4
           /\ uartsColl.status = "error" <=> (DOMAIN uartMap \ UARTKeys # {})
           /\ \A i \in 1..4 :
                  /\ uartsColl.uarts[i].Key = SlotKey(i)
                  /\ uartsColl.uarts[i] =
                         (IF SlotKey(i) \in DOMAIN uartMap THEN uartMap[SlotKey(i)]
                          ELSE UARTOffFromKey(SlotKey(i)))
    /\ (cmdRes.status # "none" /\ ~uartsColl.trimmed) =>
           /\ cmdRes.status = "ok"
           /\ \A n \in 1..4 : UartNCount(n) = 1

(***************************************************************************)
(* Properties of concurrent GetMachine calls.                              *)
(***************************************************************************)
\* the callers whose showvminfo run of the tool is in progress
Running == {c \in Callers : caller[c].pc = "runOutErr"}

\* the tool said that no registered machine matches the identifier
ToolSaidNotFound(tool) ==
    tool # <<>> /\ tool.stderr \in {sNotFoundNamed, sNotFoundByUuid}

\* C21: when the tool fails saying that no registered machine matches the
\* identifier, a name or a UUID, GetMachine returns ErrMachineNotExist;
\* every other failure of the tool is returned as another, wrapped error;
\* without failure GetMachine goes on to the decoding.
C21_NotFoundIsErrMachineNotExist ==
    \A c \in Callers :
        (caller[c].pc = "idle" /\ caller[c].res # "none") =>
            caller[c].res =
                (IF caller[c].tool.err = "nil" THEN "nil"
                 ELSE IF ToolSaidNotFound(caller[c].tool) THEN "ErrMachineNotExist"
                 ELSE "wrapped")

\* C22: at most one showvminfo run of the tool is in progress at any time,
\* the lock is held exactly while a run is in progress or has just
\* returned, it is free again after every run, failed or not, and every
\* caller that waits for the lock gets to run its own query.
C22_OneShowVMInfoAtATime ==
    /\ [](/\ Cardinality(Running) <= 1
          /\ \A c \in Callers :
                 caller[c].pc \in {"runOutErr", "Unlock"} <=> mutex = c)
    /\ \A c \in Callers :
           /\ (caller[c].pc = "Lock") ~> (caller[c].pc = "runOutErr")
           /\ (caller[c].pc = "runOutErr") ~> (mutex # c)

\* a caller runs its query, after a call of its own that failed, while
\* another caller waits for the lock
C22_Witness ==
    \E c, d \in Callers :
        /\ caller[c].pc = "runOutErr"
        /\ caller[c].res = "wrapped"
        /\ caller[d].pc = "Lock"
        /\ mutex = c

(***************************************************************************)
(* Properties of WaitGuestProperties.                                      *)
(***************************************************************************)
\* C23: the goroutine is in a wait only when the consumer has received
\* every change the waits returned so far, or when it has stopped; at most
\* one change is pending, at the select; and the changes received are the
\* changes returned, in their order, each once.
C23_OneEventAtATime ==
    /\ Len(props.received) <= Len(waiter.returned)
    /\ Len(waiter.returned) - Len(props.received) <= 1
    /\ props.received = SubSeq(waiter.returned, 1, Len(props.received))
    /\ waiter.pc = "wait" => props.received = waiter.returned
    /\ waiter.pc = "select" =>
           /\ waiter.prop = <<waiter.returned[Len(waiter.returned)]>>
           /\ Len(props.received) = Len(waiter.returned) - 1

\* the consumer has received two changes of different values and the third
\* wait is in progress
C23_Witness ==
    /\ waiter.pc = "wait"
    /\ Len(props.received) = 2
    /\ props.received[1].Value # props.received[2].Value
    /\ props.received = waiter.returned

\* C24: the goroutine stops only on an error of the wait or on a closed
\* done with a change pending; when it has stopped props is closed and
\* wg.Done was called once, never more; and once done is closed and the
\* wait has returned, the goroutine ends, so that wg.Wait() returns.
C24_StopsOnErrorOrDone ==
    /\ [](/\ waiter.pc \in {"wgDone", "closeProps", "ended"} => (waiter.failed \/ done)
          /\ waiter.wgDone <= 1
          /\ wg = 1 - waiter.wgDone
          /\ waiter.pc \in {"closeProps", "ended"} <=> waiter.wgDone = 1
          /\ props.closed <=> waiter.pc = "ended")
    /\ (done /\ waiter.pc = "select") ~> (waiter.pc = "ended" /\ wg = 0)

(***************************************************************************)
(* Properties of Restart and Stop.                                         *)
(***************************************************************************)
\* the positions of the acpipowerbutton commands among the commands issued
Presses == {i \in 1..Len(vmOp.issued) : vmOp.issued[i] = "acpipowerbutton"}

\* C30: a Restart that returns no error on a machine recorded as running,
\* paused or saved has issued acpipowerbutton at least once, from the
\* first one on acpipowerbutton and refresh in turn, the last refresh
\* giving the state poweroff, and after that the start command, once, as
\* its last command; and a Stop that returns no error leaves the recorded
\* state poweroff, aborted or saved.
C30_StopThenStart ==
    /\ (/\ vmOp.op = "Restart"
        /\ vmOp.res = "nil"
        /\ vmOp.initial \in {MachineState.Running, MachineState.Paused,
                             MachineState.Saved}) =>
           /\ Presses # {}
           /\ vmOp.State = MachineState.Poweroff
           /\ vmOp.issued[Len(vmOp.issued)] = "startvm"
           /\ \A i \in SetMin(Presses)..(Len(vmOp.issued) - 1) :
                  vmOp.issued[i] =
                      (IF (i - SetMin(Presses)) % 2 = 0 THEN "acpipowerbutton"
                       ELSE "showvminfo")
           /\ vmOp.issued[Len(vmOp.issued) - 1] = "showvminfo"
    /\ (vmOp.op = "Stop" /\ vmOp.res = "nil") =>
           vmOp.State \in {MachineState.Poweroff, MachineState.Aborted,
                           MachineState.Saved}

====
